---- MODULE Spec2Model ----
(***************************************************************************)
(* A model of src/script.py: the harvest-dedup-act engine that scans the   *)
(* conversations of a messaging inbox, captures the shared posts, removes  *)
(* duplicates and reposts each one; and of undo_retweets of                 *)
(* src/undo_retweet.py, which undoes the reposts of a profile page.        *)
(*                                                                         *)
(* Strings are sequences of one-character strings, so that parsing a       *)
(* reference is computed character by character as the code computes it.   *)
(* A character outside ASCII is written "U+XXXX", its code point.  None,  *)
(* the empty string and the empty list are all the empty sequence where    *)
(* the code tests them for truthiness only; previous_scroll_top, which the *)
(* code compares with an offset, is None or the one-element tuple of the   *)
(* offset.                                                                 *)
(***************************************************************************)
EXTENDS Integers, Sequences, FiniteSets, TLC

VARIABLES
  \* the deduplicator applied to one capture list (SpecDedup)
  dedupIn, dedupMid, dedupOut, dedupPc,
  \* the site: the conversations' histories (document nodes, oldest first), the
  \* conversation the main page shows (0: none), the first history node that is
  \* loaded into the document, the viewport's scroll offset and its largest value
  chats, openChat, loadedFrom, scrollTop, maxScroll,
  \* scroll_and_capture_links: its position, its locals and what it returned
  s_pc, captured_links, done_message_found, scroll_count, previous_scroll_top, s_result,
  \* history of the scroll run: the scrollBy calls made, the last of them that
  \* changed the offset (0: none did), and the first history node that was loaded
  \* when the loop ended (0: it has not ended)
  scrollsDone, lastChange, exitFrom,
  \* the posts: which are reposted, and how many times the confirming click was made
  \* on each (counted up to ConfirmCap)
  amplified, confirms,
  \* the isolated view: the post it shows ("none": no view is open)
  pagePost,
  \* retweet_post: its position, its retry index and what it returned
  r_pc, retry_count, r_result,
  \* history of the call: the retry index and the page's state when it was invoked,
  \* the page reloads, the attempts that ended because no button was located, the
  \* clicks on the primary button and on the confirming option, and the step at
  \* which it returned
  entryRetry, entryAmplified, reloads, misses, r_clicks, r_confirms, r_cause,
  \* retweet_post: the locals wait_time (seconds) and timeout (milliseconds) of the
  \* attempt in progress, 0 while the attempt has not assigned them; when a retry is
  \* called, wait_time is the delay its caller's except branch has just slept
  wait_time, timeout,
  \* open_tweet_in_new_tab: its position, the index of its retry loop, whether
  \* url_page holds a view, and what it returned
  o_pc, retry_attempt, url_page, o_result,
  \* the isolated views open in the browser context, and history: the views left
  \* open by a call that an exception ended (counted up to LeakCap)
  openViews, leaked,
  \* process_chat_tweets: its position, its arguments, its locals and what it returned
  p_pc, p_retry, chat_index, post_elements, post_j, tweets_retweeted,
  tweets_already_retweeted, tweets_failed, p_result,
  \* history: the results of open_tweet_in_new_tab in the invocation, in order, and
  \* the calls of send_done_message in the visit
  outcomes, doneCalls,
  \* history of the visit, over the invocation of run_script and its recursive
  \* retry: "open" and "open_failed" for a call of open_chat_by_index by its result,
  \* "capture" for a call of scroll_and_capture_links, "reload" for a call of
  \* page.reload, "fault" for an exception caught by the except branch
  visit,
  \* history of the visit: a call of open_tweet_in_new_tab of the visit, in the
  \* invocation of run_script or in its recursive retry, has returned "retweeted"
  visit_retweeted,
  \* run_script: its position, the indexes of its two loops and its locals
  run_pc, iteration_num, chat_i, chat_count, total_tweets_opened,
  \* run_script: the mode chosen at the main menu (0: not yet chosen), the interval
  \* of mode 2 and the flag of the session loop
  initial_choice, hours, running_session,
  \* history of the pass: the indexes process_chat_tweets was called with, in order
  visited,
  \* history of the session: the pass in which the operator was last asked "Retry
  \* this iteration?" and the answer given, <<>> when no pass has asked since the
  \* last pass began
  prompt,
  \* the start of the program: config.json and cookies.txt as they are on disk, the
  \* position of the start, the module's CONFIG and the three settings read from it,
  \* the parsed cookies and the cookies of the browser context
  config_file, cookies_file, start_pc, CONFIG, settings, cookies, jar,
  \* undo_retweets (src/undo_retweet.py): its position; the profile page (the posts
  \* that show an undo button, the posts whose undo button cannot be clicked, and the
  \* post whose undo menu is open, 0 for none); the buttons found by the last scan;
  \* the tasks of the round (position, confirm_button and return value of each); and
  \* the count of undone reposts
  u_pc, u_page, undo_buttons, tasks, total_undo_count

dedupVars == <<dedupIn, dedupMid, dedupOut, dedupPc>>

siteVars == <<chats, openChat, loadedFrom, scrollTop, maxScroll>>

scrollVars == <<s_pc, captured_links, done_message_found, scroll_count, previous_scroll_top,
                s_result, scrollsDone, lastChange, exitFrom>>

postVars == <<amplified, confirms, pagePost>>

execVars == <<r_pc, retry_count, r_result, entryRetry, entryAmplified, reloads, misses,
              r_clicks, r_confirms, r_cause, wait_time, timeout>>

tabVars == <<o_pc, retry_attempt, url_page, o_result, openViews, leaked>>

procVars == <<p_pc, p_retry, chat_index, post_elements, post_j, tweets_retweeted,
              tweets_already_retweeted, tweets_failed, p_result, outcomes, doneCalls, visit,
              visit_retweeted>>

menuVars == <<initial_choice, hours, running_session>>

runVars == <<run_pc, iteration_num, chat_i, chat_count, total_tweets_opened, menuVars,
             visited, prompt>>

startVars == <<config_file, cookies_file, start_pc, CONFIG, settings, cookies, jar>>

undoVars == <<u_pc, u_page, undo_buttons, tasks, total_undo_count>>

vars == <<dedupVars, siteVars, scrollVars, postVars, execVars, tabVars, procVars, runVars,
          startVars, undoVars>>

\* what the actions of each part leave alone
dedupFrame == <<siteVars, scrollVars, postVars, execVars, tabVars, procVars, runVars, startVars,
   undoVars>>

scrollFrame == <<dedupVars, postVars, execVars, tabVars, procVars, runVars, startVars,
   undoVars>>

execFrame == <<dedupVars, siteVars, scrollVars, tabVars, procVars, runVars, startVars,
   undoVars>>

tabFrame == <<dedupVars, siteVars, scrollVars, procVars, runVars, startVars,
   undoVars>>

procFrame == <<dedupVars, postVars, execVars, runVars, startVars,
   undoVars>>

runFrame == <<dedupVars, siteVars, scrollVars, postVars, execVars, tabVars, startVars,
   undoVars>>

startFrame == <<dedupVars, siteVars, scrollVars, postVars, execVars, tabVars, procVars, runVars,
   undoVars>>

undoFrame == <<dedupVars, siteVars, scrollVars, postVars, execVars, tabVars, procVars, runVars,
               startVars>>

None == <<>>

(***************************************************************************)
(* Characters.  A character is a string of one character.  A character     *)
(* that a module cannot hold (a control character other than tab, line     *)
(* feed, form feed and carriage return, or a character outside ASCII) is   *)
(* written "U+" and its code point in upper-case hexadecimal, four digits  *)
(* at least: "U+000B", "U+0661", "U+1D7CE".                                *)
(***************************************************************************)
AsciiDigits == {"0", "1", "2", "3", "4", "5", "6", "7", "8", "9"}

HexLetters == {"A", "B", "C", "D", "E", "F"}

\* the decimal digits of the scripts (category Nd of Unicode 14, the table of
\* Python 3.11) lie in rows of sixteen code points: in columns 0-9 of the rows
\* DigitRows0 and in columns 6-F of the rows DigitRows6; the mathematical digits
\* are U+1D7CE .. U+1D7FF
DigitRows0 == {
               "U+066", "U+06F", "U+07C", "U+0E5", "U+0ED", "U+0F2", "U+104",
               "U+109", "U+17E", "U+181", "U+19D", "U+1A8", "U+1A9", "U+1B5",
               "U+1BB", "U+1C4", "U+1C5", "U+A62", "U+A8D", "U+A90", "U+A9D",
               "U+A9F", "U+AA5", "U+ABF", "U+FF1", "U+104A", "U+10D3",
               "U+110F", "U+111D", "U+112F", "U+1145", "U+114D", "U+1165",
               "U+116C", "U+1173", "U+118E", "U+1195", "U+11C5", "U+11D5",
               "U+11DA", "U+16A6", "U+16AC", "U+16B5", "U+1E14", "U+1E2F",
               "U+1E95", "U+1FBF"}

DigitRows6 == {
               "U+096", "U+09E", "U+0A6", "U+0AE", "U+0B6", "U+0BE", "U+0C6",
               "U+0CE", "U+0D6", "U+0DE", "U+194", "U+1106", "U+1113"}

\* \d of a str pattern
Digits ==
  AsciiDigits
    \cup {row \o col : row \in DigitRows0, col \in AsciiDigits}
    \cup {row \o col : row \in DigitRows6, col \in {"6", "7", "8", "9"} \cup HexLetters}
    \cup {"U+1D7CE", "U+1D7CF"}
    \cup {row \o col : row \in {"U+1D7D", "U+1D7E", "U+1D7F"}, col \in AsciiDigits \cup HexLetters}

LowerLetters == {"a", "b", "c", "d", "e", "f", "g", "h", "i", "j", "k", "l", "m",
                 "n", "o", "p", "q", "r", "s", "t", "u", "v", "w", "x", "y", "z"}

UpperLetters == {"A", "B", "C", "D", "E", "F", "G", "H", "I", "J", "K", "L", "M",
                 "N", "O", "P", "Q", "R", "S", "T", "U", "V", "W", "X", "Y", "Z"}

\* c.isascii() and c.isalpha()
Letters == LowerLetters \cup UpperLetters

IsDigit(c) == c \in Digits

\* str.isspace, \s of a str pattern
Whitespace == {
               "\t", "\n", "U+000B", "\f", "\r", "U+001C", "U+001D", "U+001E",
               "U+001F", " ", "U+0085", "U+00A0", "U+1680", "U+2000",
               "U+2001", "U+2002", "U+2003", "U+2004", "U+2005", "U+2006",
               "U+2007", "U+2008", "U+2009", "U+200A", "U+2028", "U+2029",
               "U+202F", "U+205F", "U+3000"}

\* s[i..j], empty when j < i
Slice(s, i, j) == IF j < i THEN <<>> ELSE SubSeq(s, i, j)

\* str.startswith
StartsWith(s, p) == Len(s) >= Len(p) /\ SubSeq(s, 1, Len(p)) = p

\* whether p occurs in s at position i
OccursAt(s, p, i) == i >= 1 /\ i + Len(p) - 1 <= Len(s) /\ SubSeq(s, i, i + Len(p) - 1) = p

\* the least index >= from whose character is in cs, or Len(s) + 1
FirstOf(s, cs, from) ==
  LET hits == {k \in from..Len(s) : s[k] \in cs}
  IN IF hits = {} THEN Len(s) + 1 ELSE CHOOSE k \in hits : \A m \in hits : k <= m

\* the least index >= from whose character is not in cs, or Len(s) + 1
FirstNotOf(s, cs, from) ==
  LET hits == {k \in from..Len(s) : s[k] \notin cs}
  IN IF hits = {} THEN Len(s) + 1 ELSE CHOOSE k \in hits : \A m \in hits : k <= m

\* the greatest index whose character is in cs, or 0
LastOf(s, cs) ==
  LET hits == {k \in 1..Len(s) : s[k] \in cs}
  IN IF hits = {} THEN 0 ELSE CHOOSE k \in hits : \A m \in hits : m <= k

\* the greatest index whose character is not in cs, or 0
LastNotOf(s, cs) ==
  LET hits == {k \in 1..Len(s) : s[k] \notin cs}
  IN IF hits = {} THEN 0 ELSE CHOOSE k \in hits : \A m \in hits : m <= k

\* c in s
Contains(s, c) == \E k \in 1..Len(s) : s[k] = c

\* str.strip
strip(s) == Slice(s, FirstNotOf(s, Whitespace, 1), LastNotOf(s, Whitespace))

\* str.split(sep) for a separator of one character
RECURSIVE split(_, _)
split(s, sep) ==
  LET k == FirstOf(s, {sep}, 1)
  IN IF k > Len(s)
     THEN <<s>>
     ELSE <<Slice(s, 1, k - 1)>> \o split(Slice(s, k + 1, Len(s)), sep)

DigitChar == <<"0", "1", "2", "3", "4", "5", "6", "7", "8", "9">>

HttpWord == <<"h", "t", "t", "p">>

StatusSegment == <<"/", "s", "t", "a", "t", "u", "s", "/">>

(***************************************************************************)
(* ipaddress.ip_address(hostname) as urlsplit uses it on the text between  *)
(* "[" and "]" of a network location: whether the text is an IPv6 address. *)
(***************************************************************************)
\* int(octet_str, 10) of at most three ASCII digits
octet_value(octet) ==
  LET digit(c) == CHOOSE d \in 0..9 : DigitChar[d + 1] = c
  IN IF Len(octet) = 1 THEN digit(octet[1])
     ELSE IF Len(octet) = 2 THEN 10 * digit(octet[1]) + digit(octet[2])
          ELSE 100 * digit(octet[1]) + 10 * digit(octet[2]) + digit(octet[3])

\* IPv4Address._parse_octet does not raise
parse_octet_ok(octet) ==
  /\ octet # <<>>
  /\ \A k \in 1..Len(octet) : octet[k] \in AsciiDigits
  /\ Len(octet) <= 3
  /\ octet = <<"0">> \/ octet[1] # "0"
  /\ octet_value(octet) <= 255

\* IPv4Address(address) does not raise
is_ipv4(address) ==
  /\ ~Contains(address, "/")
  /\ address # <<>>
  /\ Len(split(address, ".")) = 4
  /\ \A k \in 1..4 : parse_octet_ok(split(address, ".")[k])

\* IPv6Address._parse_hextet does not raise
parse_hextet_ok(hextet) ==
  /\ hextet # <<>>
  /\ \A k \in 1..Len(hextet) :
       hextet[k] \in AsciiDigits \cup HexLetters \cup {"a", "b", "c", "d", "e", "f"}
  /\ Len(hextet) <= 4

\* IPv6Address._ip_int_from_string does not raise
ip_int_from_string_ok(ip_str) ==
  /\ ip_str # <<>>
  /\ Len(split(ip_str, ":")) >= 3
  /\ LET raw == split(ip_str, ":")
         dotted == Contains(raw[Len(raw)], ".")
         parts == IF dotted
                  THEN SubSeq(raw, 1, Len(raw) - 1) \o << <<"0">>, <<"0">> >>
                  ELSE raw
         n == Len(parts)
         skips == {i \in 2..(n - 1) : parts[i] = <<>>}
     IN /\ dotted => is_ipv4(raw[Len(raw)])
        /\ n <= 9
        /\ Cardinality(skips) <= 1
        /\ IF skips # {}
           THEN LET skip_index == CHOOSE i \in skips : TRUE
                    parts_hi == IF parts[1] = <<>> THEN skip_index - 2 ELSE skip_index - 1
                    parts_lo == IF parts[n] = <<>> THEN n - skip_index - 1 ELSE n - skip_index
                IN /\ parts[1] = <<>> => parts_hi = 0
                   /\ parts[n] = <<>> => parts_lo = 0
                   /\ 8 - (parts_hi + parts_lo) >= 1
                   /\ \A i \in 1..parts_hi : parse_hextet_ok(parts[i])
                   /\ \A i \in (n - parts_lo + 1)..n : parse_hextet_ok(parts[i])
           ELSE /\ n = 8
                /\ \A i \in 1..n : parse_hextet_ok(parts[i])

\* IPv6Address(address) does not raise: the address and its scope id after "%"
is_ipv6(address) ==
  LET percent == FirstOf(address, {"%"}, 1)
      scope_id == Slice(address, percent + 1, Len(address))
  IN /\ ~Contains(address, "/")
     /\ percent <= Len(address) => (scope_id # <<>> /\ ~Contains(scope_id, "%"))
     /\ ip_int_from_string_ok(Slice(address, 1, percent - 1))

\* _check_bracketed_host does not raise: an IPvFuture literal, which matches
\* \Av[a-fA-F0-9]+\..+\Z, or else an address that is IPv6
check_bracketed_host_ok(hostname) ==
  IF StartsWith(hostname, <<"v">>)
  THEN LET dot == FirstOf(hostname, {"."}, 2)
       IN /\ dot > 2
          /\ dot < Len(hostname)
          /\ \A k \in 2..(dot - 1) :
               hostname[k] \in AsciiDigits \cup HexLetters \cup {"a", "b", "c", "d", "e", "f"}
          /\ \A k \in (dot + 1)..Len(hostname) : hostname[k] # "\n"
  ELSE is_ipv6(hostname)

(***************************************************************************)
(* urllib.parse.urlparse(href) of Python 3.11: urlsplit strips the leading *)
(* control characters and spaces and removes tab, carriage return and line *)
(* feed; the scheme is the text up to the first ":" when it is made of     *)
(* scheme characters, lower-cased; the network location follows "//" up to *)
(* "/", "?" or "#"; then the fragment and the query are cut off, and       *)
(* urlparse cuts the parameters (";...") of the last path segment off.     *)
(* urlsplit raises ValueError on a network location with unmatched or      *)
(* ill-filled brackets, or one whose NFKC form holds one of / ? # @ :      *)
(***************************************************************************)
\* _WHATWG_C0_CONTROL_OR_SPACE
C0ControlOrSpace == {
                     "U+0000", "U+0001", "U+0002", "U+0003", "U+0004",
                     "U+0005", "U+0006", "U+0007", "U+0008", "\t", "\n",
                     "U+000B", "\f", "\r", "U+000E", "U+000F", "U+0010",
                     "U+0011", "U+0012", "U+0013", "U+0014", "U+0015",
                     "U+0016", "U+0017", "U+0018", "U+0019", "U+001A",
                     "U+001B", "U+001C", "U+001D", "U+001E", "U+001F", " "}

\* _UNSAFE_URL_BYTES_TO_REMOVE
UnsafeUrlBytes == {"\t", "\r", "\n"}

SchemeChars == Letters \cup AsciiDigits \cup {"+", "-", "."}

\* uses_params
uses_params == {
               <<>>, <<"f", "t", "p">>, <<"h", "d", "l">>,
               <<"p", "r", "o", "s", "p", "e", "r", "o">>,
               <<"h", "t", "t", "p">>, <<"i", "m", "a", "p">>,
               <<"h", "t", "t", "p", "s">>, <<"s", "h", "t", "t", "p">>,
               <<"r", "t", "s", "p">>, <<"r", "t", "s", "p", "s">>,
               <<"r", "t", "s", "p", "u">>, <<"s", "i", "p">>,
               <<"s", "i", "p", "s">>, <<"m", "m", "s">>,
               <<"s", "f", "t", "p">>, <<"t", "e", "l">>}

\* the characters outside ASCII whose NFKC form holds one of / ? # @ :
NfkcUnsafe == {
               "U+2047", "U+2048", "U+2049", "U+2100", "U+2101", "U+2105",
               "U+2106", "U+2A74", "U+FE13", "U+FE16", "U+FE55", "U+FE56",
               "U+FE5F", "U+FE6B", "U+FF03", "U+FF0F", "U+FF1A", "U+FF1F",
               "U+FF20"}

\* str.lower of a run of scheme characters
str_lower(s) ==
  LET upper == <<"A", "B", "C", "D", "E", "F", "G", "H", "I", "J", "K", "L", "M",
                 "N", "O", "P", "Q", "R", "S", "T", "U", "V", "W", "X", "Y", "Z">>
      lowered == <<"a", "b", "c", "d", "e", "f", "g", "h", "i", "j", "k", "l", "m",
                   "n", "o", "p", "q", "r", "s", "t", "u", "v", "w", "x", "y", "z">>
      lowerOf(c) == IF c \in UpperLetters
                    THEN lowered[CHOOSE k \in 1..26 : upper[k] = c]
                    ELSE c
  IN [k \in 1..Len(s) |-> lowerOf(s[k])]

\* _checknetloc raises: a character of the network location other than @ : # ?
\* has an NFKC form that holds one of / ? # @ :
checknetloc_raises(netloc) == \E k \in 1..Len(netloc) : netloc[k] \in NfkcUnsafe

\* the brackets of the network location make urlsplit raise
brackets_raise(netloc) ==
  LET open == FirstOf(netloc, {"["}, 1)
      afterOpen == Slice(netloc, open + 1, Len(netloc))
      bracketed_host == Slice(afterOpen, 1, FirstOf(afterOpen, {"]"}, 1) - 1)
  IN \/ Contains(netloc, "[") /\ ~Contains(netloc, "]")
     \/ Contains(netloc, "]") /\ ~Contains(netloc, "[")
     \/ Contains(netloc, "[") /\ Contains(netloc, "]") /\ ~check_bracketed_host_ok(bracketed_host)

\* _splitparams(url)[0]
splitparams(url) == Slice(url, 1, FirstOf(url, {";"}, IF LastOf(url, {"/"}) = 0 THEN 1
                                                          ELSE LastOf(url, {"/"})) - 1)

\* urlparse(href): whether it raises, and the scheme, netloc and path of its result
urlparse(href) ==
  LET stripped == Slice(href, FirstNotOf(href, C0ControlOrSpace, 1), Len(href))
      url == SelectSeq(stripped, LAMBDA c : c \notin UnsafeUrlBytes)
      colon == FirstOf(url, {":"}, 1)
      hasScheme == /\ colon <= Len(url)
                   /\ colon > 1
                   /\ url[1] \in Letters
                   /\ \A k \in 1..(colon - 1) : url[k] \in SchemeChars
      scheme == IF hasScheme THEN str_lower(Slice(url, 1, colon - 1)) ELSE <<>>
      rest == IF hasScheme THEN Slice(url, colon + 1, Len(url)) ELSE url
      hasNetloc == StartsWith(rest, <<"/", "/">>)
      delim == FirstOf(rest, {"/", "?", "#"}, 3)
      netloc == IF hasNetloc THEN Slice(rest, 3, delim - 1) ELSE <<>>
      afterLoc == IF hasNetloc THEN Slice(rest, delim, Len(rest)) ELSE rest
      noFrag == Slice(afterLoc, 1, FirstOf(afterLoc, {"#"}, 1) - 1)
      noQuery == Slice(noFrag, 1, FirstOf(noFrag, {"?"}, 1) - 1)
  IN [raises |-> brackets_raise(netloc) \/ checknetloc_raises(netloc),
      scheme |-> scheme,
      netloc |-> netloc,
      path |-> IF scheme \in uses_params /\ Contains(noQuery, ";")
               THEN splitparams(noQuery)
               ELSE noQuery]

urlparse_path(href) == urlparse(href).path

(***************************************************************************)
(* re.match(r'/([^/]+)/status/(\d+)', path): anchored at the start; the    *)
(* account is the run of non-slash characters after the first slash, the   *)
(* id the longest run of digits after "/status/".                          *)
(***************************************************************************)
match_status_path(path) ==
  IF Len(path) = 0 \/ path[1] # "/" THEN None
  ELSE LET accEnd == FirstOf(path, {"/"}, 2)
           idStart == accEnd + Len(StatusSegment)
           idEnd == FirstNotOf(path, Digits, idStart)
       IN IF /\ accEnd > 2
             /\ OccursAt(path, StatusSegment, accEnd)
             /\ idEnd > idStart
          THEN <<Slice(path, 2, accEnd - 1), Slice(path, idStart, idEnd - 1)>>
          ELSE None

\* a signature taken with re.search: the pattern may start at any slash
extract_status_signature_Search(href) ==
  LET hits == {k \in 1..Len(href) : match_status_path(Slice(href, k, Len(href))) # None}
  IN IF hits = {} THEN None
     ELSE match_status_path(Slice(href, CHOOSE k \in hits : \A m \in hits : k <= m, Len(href)))

extract_status_signature(href) ==
  IF href = <<>> THEN None
  ELSE IF StartsWith(href, HttpWord)
       THEN IF urlparse(href).raises THEN None ELSE match_status_path(urlparse_path(href))
       ELSE match_status_path(href)

(***************************************************************************)
(* The Capture Deduplicator.  A captured item is a record                  *)
(*   [type, href, element, signature]                                      *)
(* ('signature' is only set on embedded items; a direct link has None).    *)
(***************************************************************************)
\* The two filters are the loop "for link_item in captured_links" with the locals
\* seen_signatures and filtered_links.  seen_signatures, when the loop comes to
\* links[i], holds the signatures of the items of the filter's kind before i; the
\* item is appended to filtered_links unless it is of that kind, has a signature
\* and the signature is in seen_signatures.

\* signature in seen_signatures, at links[i]: an item of the kind before links[i]
\* has the signature of links[i]
in_seen_signatures(links, kind, sigs, i) ==
  \E m \in 1..(i - 1) : links[m].type = kind /\ sigs[m] # None /\ sigs[m] = sigs[i]

\* links[i] is appended to filtered_links
appended(links, kind, sigs, i) ==
  (links[i].type = kind /\ sigs[i] # None) => ~in_seen_signatures(links, kind, sigs, i)

\* filtered_links after the loop
filtered_links(links, kind, sigs) ==
  LET kept == SelectSeq([i \in 1..Len(links) |-> i], LAMBDA i : appended(links, kind, sigs, i))
  IN [k \in 1..Len(kept) |-> links[kept[k]]]

RECURSIVE direct_loop_KeepLast(_, _, _, _)
direct_loop_KeepLast(links, i, seen_signatures, kept) ==
  IF i < 1 THEN kept
  ELSE LET link_item == links[i]
           signature == extract_status_signature(link_item.href)
       IN IF link_item.type = "direct_link" /\ signature # None /\ signature \in seen_signatures
          THEN direct_loop_KeepLast(links, i - 1, seen_signatures, kept)
          ELSE direct_loop_KeepLast(links, i - 1,
                                    IF link_item.type = "direct_link" /\ signature # None
                                    THEN seen_signatures \cup {signature} ELSE seen_signatures,
                                    <<link_item>> \o kept)

\* a deduplicator that never records what it has seen
filter_duplicate_direct_links_NoSeen(links) == links

\* a deduplicator that keeps the last occurrence of a signature
filter_duplicate_direct_links_KeepLast(links) ==
  direct_loop_KeepLast(links, Len(links), {}, <<>>)

filter_duplicate_direct_links(links) ==
  filtered_links(links, "direct_link",
                 [i \in 1..Len(links) |->
                    IF links[i].type = "direct_link"
                    THEN extract_status_signature(links[i].href)
                    ELSE None])

\* a filter without the branch that keeps the items of the other kind
filter_duplicate_embedded_links_NoElse(links) ==
  SelectSeq(filtered_links(links, "embedded",
                           [i \in 1..Len(links) |->
                              IF links[i].type = "embedded" THEN links[i].signature ELSE None]),
            LAMBDA item : item.type = "embedded")

filter_duplicate_embedded_links(links) ==
  filtered_links(links, "embedded",
                 [i \in 1..Len(links) |->
                    IF links[i].type = "embedded" THEN links[i].signature ELSE None])

(***************************************************************************)
(* References used as inputs.  Every one contains "/status/", as the       *)
(* capture selector a[role="link"][href*="/status/"] requires.             *)
(***************************************************************************)
HostPrefix == <<"h", "t", "t", "p", "s", ":", "/", "/", "x", ".", "c", "o", "m">>

AcctAbc == <<"a", "b", "c">>

AcctXyz == <<"x", "y", "z">>

Id100 == <<"1", "0", "0">>

Id200 == <<"2", "0", "0">>

StatusRef(acct, id) == <<"/">> \o acct \o StatusSegment \o id

\* /abc/status/100
HrefAbc100 == StatusRef(AcctAbc, Id100)

\* https://x.com/abc/status/100
HrefAbc100Abs == HostPrefix \o HrefAbc100

\* /abc/status/100/photo/1
HrefAbc100Photo == HrefAbc100 \o <<"/", "p", "h", "o", "t", "o", "/", "1">>

\* HTTPS://x.com/abc/status/100 : the scheme of a URL is case-insensitive
HrefAbc100Upper ==
  <<"H", "T", "T", "P", "S", ":", "/", "/", "x", ".", "c", "o", "m">> \o HrefAbc100

\* https://x.com/abc/status/100;p?s=20\n : parameters, a query and a line feed
HrefAbc100Params == HrefAbc100Abs \o <<";", "p", "?", "s", "=", "2", "0", "\n">>

\* http://[x/abc/status/100 : urlparse raises ValueError on the open bracket
HrefBracket == <<"h", "t", "t", "p", ":", "/", "/", "[", "x">> \o HrefAbc100

\* /abc/status/ and the Arabic-Indic digits one, zero, zero
HrefAbcArabic == <<"/">> \o AcctAbc \o StatusSegment \o <<"U+0661", "U+0660", "U+0660">>

\* https://x.com/abc/status/100?s=20
HrefAbc100Query == HrefAbc100Abs \o <<"?", "s", "=", "2", "0">>

\* /xyz/status/200
HrefXyz200 == StatusRef(AcctXyz, Id200)

\* /abc/status/200
HrefAbc200 == StatusRef(AcctAbc, Id200)

\* /xyz/status/100
HrefXyz100 == StatusRef(AcctXyz, Id100)

\* /abc/status/1002
HrefAbc1002 == HrefAbc100 \o <<"2">>

\* /i/web/status/100 : "/status/" is not the second segment
HrefWeb == <<"/", "i", "/", "w", "e", "b">> \o StatusSegment \o Id100

\* /abc/status/new : no digits after "/status/"
HrefNoId == <<"/">> \o AcctAbc \o StatusSegment \o <<"n", "e", "w">>

\* x.com/abc/status/100 : neither a scheme nor a leading slash
HrefNoSlash == <<"x", ".", "c", "o", "m">> \o HrefAbc100

StatusHrefs == {HrefAbc100, HrefAbc100Abs, HrefAbc100Photo, HrefAbc100Query,
                HrefXyz200, HrefAbc200, HrefXyz100, HrefAbc1002}

NonStatusHrefs == {HrefWeb, HrefNoId, HrefNoSlash}

(***************************************************************************)
(* extract_embedded_signature: the signature of an embedded post element.  *)
(* A document node is a record                                             *)
(*   [type, href, text, html, box, broken, post]                           *)
(* text and html are textContent and outerHTML, box is the bounding box    *)
(* [x, y, width, height] or None, broken says that evaluating against the  *)
(* node raises, post is the post the node leads to when opened.            *)
(***************************************************************************)
\* ' '.join(text.strip().split()): the characters that are not whitespace, and one
\* space for every run of whitespace that lies between two of them
clean_words(text) ==
  LET word(k) == text[k] \notin Whitespace
      gap(k) == /\ text[k] \in Whitespace
                /\ k > 1
                /\ word(k - 1)
                /\ \E m \in (k + 1)..Len(text) : word(m)
      kept == SelectSeq([k \in 1..Len(text) |-> k], LAMBDA k : word(k) \/ gap(k))
  IN [j \in 1..Len(kept) |-> IF word(kept[j]) THEN text[kept[j]] ELSE " "]

TextPrefixLen == 100

clean_text(text_content) ==
  LET joined == clean_words(text_content)
  IN Slice(joined, 1, IF Len(joined) < TextPrefixLen THEN Len(joined) ELSE TextPrefixLen)

\* re.search(r'status/(\d+)', element_html).group(1), or None
tweet_id_match(element_html) ==
  LET word == <<"s", "t", "a", "t", "u", "s", "/">>
      hits == {k \in 1..Len(element_html) :
                 /\ OccursAt(element_html, word, k)
                 /\ k + Len(word) <= Len(element_html)
                 /\ IsDigit(element_html[k + Len(word)])}
  IN IF hits = {} THEN None
     ELSE LET k == CHOOSE h \in hits : \A m \in hits : h <= m
          IN Slice(element_html, k + Len(word),
                   FirstNotOf(element_html, Digits, k + Len(word)) - 1)

\* re.search(r'/([^/\s"]+)/status/', element_html).group(1), or None
account_match(element_html) ==
  LET stop == Whitespace \cup {"/", "\""}
      hits == {k \in 1..Len(element_html) :
                 /\ element_html[k] = "/"
                 /\ FirstOf(element_html, stop, k + 1) > k + 1
                 /\ OccursAt(element_html, StatusSegment, FirstOf(element_html, stop, k + 1))}
  IN IF hits = {} THEN None
     ELSE LET k == CHOOSE h \in hits : \A m \in hits : h <= m
          IN Slice(element_html, k + 1, FirstOf(element_html, stop, k + 1) - 1)

\* '|'.join(parts)
RECURSIVE join_parts(_)
join_parts(parts) ==
  IF Len(parts) = 0 THEN <<>>
  ELSE IF Len(parts) = 1 THEN parts[1]
       ELSE parts[1] \o <<"|">> \o join_parts(Tail(parts))

\* str(n) of an integer
RECURSIVE nat_to_str(_)
nat_to_str(n) ==
  IF n < 10 THEN <<DigitChar[n + 1]>> ELSE Append(nat_to_str(n \div 10), DigitChar[(n % 10) + 1])

int_to_str(n) == IF n < 0 THEN <<"-">> \o nat_to_str(0 - n) ELSE nat_to_str(n)

\* a signature that always ends with the element's position
extract_embedded_signature_WithPosition(element) ==
  IF element.broken THEN None
  ELSE LET text_part == IF element.text # <<>> THEN <<clean_text(element.text)>> ELSE <<>>
           id == tweet_id_match(element.html)
           id_part == IF id # None THEN << <<"s", "t", "a", "t", "u", "s", "_">> \o id >> ELSE <<>>
           pos_part == << <<"p", "o", "s", "_">> \o int_to_str(element.box.x) \o <<"_">>
                            \o int_to_str(element.box.y) >>
       IN join_parts(text_part \o id_part \o pos_part)

extract_embedded_signature(element) ==
  IF element.broken THEN None
  ELSE LET text_part == IF element.text # <<>> THEN <<clean_text(element.text)>> ELSE <<>>
           id == tweet_id_match(element.html)
           id_part == IF id # None THEN << <<"s", "t", "a", "t", "u", "s", "_">> \o id >> ELSE <<>>
           acct == account_match(element.html)
           acct_part == IF acct # None
                        THEN << <<"a", "c", "c", "o", "u", "n", "t", "_">> \o acct >>
                        ELSE <<>>
           signature_parts == text_part \o id_part \o acct_part
       IN IF signature_parts # <<>> THEN join_parts(signature_parts)
          ELSE IF element.box # None
               THEN <<"p", "o", "s", "_">> \o int_to_str(element.box.x) \o <<"_">>
                      \o int_to_str(element.box.y)
               ELSE None

(***************************************************************************)
(* Document nodes used as inputs                                           *)
(***************************************************************************)
PostAbc100 == "abc100"

PostXyz200 == "xyz200"

PostOther == "other"

Box(x, y) == [x |-> x, y |-> y, width |-> 500, height |-> 100]

LinkNode(href, post, y) ==
  [type |-> "direct_link", href |-> href, text |-> <<>>, html |-> <<>>,
   box |-> Box(40, y), broken |-> FALSE, post |-> post]

\* a message whose text is the configured "Done" text
DoneNode(y) ==
  [type |-> "done_message", href |-> None, text |-> <<>>, html |-> <<>>,
   box |-> Box(40, y), broken |-> FALSE, post |-> "none"]

EmbeddedNode(text, html, box, broken, post) ==
  [type |-> "embedded", href |-> None, text |-> text, html |-> html,
   box |-> box, broken |-> broken, post |-> post]

\* <a href="/abc/status/100">
HtmlOf(href) == <<"<", "a", " ", "h", "r", "e", "f", "=", "\"">> \o href \o <<"\"", ">">>

\* <div role="link">
HtmlPlain == <<"<", "d", "i", "v", ">">>

\* "hi", a space, a no-break space, "yo"
TextHi == <<"h", "i", " ", "U+00A0", "y", "o">>

TextYo == <<" ", "y", "o", "\r", "\n">>

\* the captured item the capture sweep builds for a document node, with handle h
CaptureItem(node, h) ==
  [type |-> node.type, href |-> node.href, element |-> h,
   signature |-> IF node.type = "embedded" THEN extract_embedded_signature(node) ELSE None]

(***************************************************************************)
(* The parts of the state a specification does not use stay at rest.       *)
(***************************************************************************)
DedupIdle ==
  /\ dedupIn = <<>>
  /\ dedupMid = <<>>
  /\ dedupOut = <<>>
  /\ dedupPc = "idle"

SiteIdle ==
  /\ chats = <<>>
  /\ openChat = 0
  /\ loadedFrom = 1
  /\ scrollTop = 0
  /\ maxScroll = 0

ScrollIdle ==
  /\ s_pc = "idle"
  /\ captured_links = <<>>
  /\ done_message_found = FALSE
  /\ scroll_count = 0
  /\ previous_scroll_top = None
  /\ s_result = <<>>
  /\ scrollsDone = 0
  /\ lastChange = 0
  /\ exitFrom = 0

Posts == {PostAbc100, PostXyz200, PostOther}

PostsIdle ==
  /\ amplified = [p \in Posts |-> FALSE]
  /\ confirms = [p \in Posts |-> 0]
  /\ pagePost = "none"

ExecIdle ==
  /\ r_pc = "idle"
  /\ retry_count = 0
  /\ r_result = "none"
  /\ entryRetry = 0
  /\ entryAmplified = FALSE
  /\ reloads = 0
  /\ misses = 0
  /\ r_clicks = 0
  /\ r_confirms = 0
  /\ r_cause = "none"
  /\ wait_time = 0
  /\ timeout = 0

TabIdle ==
  /\ o_pc = "idle"
  /\ retry_attempt = 0
  /\ url_page = FALSE
  /\ o_result = "none"
  /\ openViews = 0
  /\ leaked = 0

ProcIdle ==
  /\ p_pc = "idle"
  /\ p_retry = 0
  /\ chat_index = 0
  /\ post_elements = <<>>
  /\ post_j = 0
  /\ tweets_retweeted = 0
  /\ tweets_already_retweeted = 0
  /\ tweets_failed = 0
  /\ p_result = 0
  /\ outcomes = <<>>
  /\ doneCalls = 0
  /\ visit = <<>>
  /\ visit_retweeted = FALSE

RunIdle ==
  /\ run_pc = "idle"
  /\ iteration_num = 0
  /\ chat_i = 0
  /\ chat_count = 0
  /\ total_tweets_opened = 0
  /\ initial_choice = 0
  /\ hours = 0
  /\ running_session = FALSE
  /\ visited = <<>>
  /\ prompt = <<>>

OrchIdle == TabIdle /\ ProcIdle /\ RunIdle

\* a JSON value as json.load returns it: its type and, for an object, its members;
\* a member is <<>> when the key is absent and <<v>> when it has the value v
NoMembers ==
  [done_message_text |-> <<>>, scrolls_count_for_each_capture |-> <<>>, iterations_count |-> <<>>]

JsonNull == [type |-> "null", members |-> NoMembers]

\* the three module constants before they are assigned
NoSettings ==
  [done_message_text |-> <<>>, scrolls_count_for_each_capture |-> 0, iterations_count |-> 0]

StartIdle ==
  /\ config_file = [kind |-> "none", value |-> JsonNull]
  /\ cookies_file = [kind |-> "none", lines |-> <<>>]
  /\ start_pc = "idle"
  /\ CONFIG = JsonNull
  /\ settings = NoSettings
  /\ cookies = <<>>
  /\ jar = <<>>

\* the page undo_retweets works on, with no post and no menu
NoPage == [reposted |-> {}, stuck |-> {}, menu |-> 0]

UndoIdle ==
  /\ u_pc = "idle"
  /\ u_page = NoPage
  /\ undo_buttons = <<>>
  /\ tasks = <<>>
  /\ total_undo_count = 0

(***************************************************************************)
(* SpecDedup: the two filters applied, in the order of the capture         *)
(* engine's last lines, to every capture list of up to MaxDedupLen items.  *)
(***************************************************************************)
MaxDedupLen == 3

DedupNodes ==
  {LinkNode(HrefAbc100, PostAbc100, 300),
   LinkNode(HrefAbc100Abs, PostAbc100, 300),
   LinkNode(HrefAbc100Upper, PostAbc100, 300),
   LinkNode(HrefAbc100Photo, PostAbc100, 300),
   LinkNode(HrefAbc100Params, PostAbc100, 300),
   LinkNode(HrefBracket, PostOther, 300),
   LinkNode(HrefAbcArabic, PostOther, 300),
   LinkNode(HrefXyz200, PostXyz200, 300),
   LinkNode(HrefWeb, PostOther, 300),
   LinkNode(HrefNoId, PostOther, 300),
   LinkNode(HrefNoSlash, PostOther, 300),
   EmbeddedNode(TextHi, HtmlOf(HrefAbc100), Box(10, 300), FALSE, PostAbc100),
   EmbeddedNode(TextYo, HtmlOf(HrefXyz200), Box(10, 300), FALSE, PostXyz200),
   EmbeddedNode(TextYo, HtmlPlain, Box(10, 300), TRUE, PostOther)}

SeqsUpTo(S, n) == UNION {[1..k -> S] : k \in 0..n}

DedupInit ==
  /\ \E nodes \in SeqsUpTo(DedupNodes, MaxDedupLen) :
       dedupIn = [i \in DOMAIN nodes |-> CaptureItem(nodes[i], <<0, i>>)]
  /\ dedupMid = <<>>
  /\ dedupOut = <<>>
  /\ dedupPc = "captured"
  /\ SiteIdle
  /\ ScrollIdle
  /\ PostsIdle
  /\ ExecIdle
  /\ OrchIdle
  /\ StartIdle
  /\ UndoIdle

\* captured_links = filter_duplicate_direct_links(captured_links)
DedupDirect ==
  /\ dedupPc = "captured"
  /\ dedupMid' = filter_duplicate_direct_links(dedupIn)
  /\ dedupPc' = "direct_filtered"
  /\ UNCHANGED <<dedupIn, dedupOut, dedupFrame>>

\* captured_links = filter_duplicate_embedded_links(captured_links)
DedupEmbedded ==
  /\ dedupPc = "direct_filtered"
  /\ dedupOut' = filter_duplicate_embedded_links(dedupMid)
  /\ dedupPc' = "filtered"
  /\ UNCHANGED <<dedupIn, dedupMid, dedupFrame>>

DedupNext == DedupDirect \/ DedupEmbedded

SpecDedup == DedupInit /\ [][DedupNext]_vars

(***************************************************************************)
(* Properties of the deduplicator                                          *)
(***************************************************************************)
\* the identity the deduplicator compares: the status signature of a direct link,
\* the stored signature of an embedded item
ItemSignature(item) ==
  IF item.type = "direct_link" THEN extract_status_signature(item.href) ELSE item.signature

DirectSignatures(links) ==
  {extract_status_signature(links[i].href) : i \in {k \in DOMAIN links : links[k].type = "direct_link"}}
    \ {None}

CountDirectWith(links, sig) ==
  Cardinality({i \in DOMAIN links :
                 links[i].type = "direct_link" /\ extract_status_signature(links[i].href) = sig})

\* C6: the list filter_duplicate_direct_links returns holds exactly one direct link
\* for each (account, id) signature among the input's direct links, and no other
\* status signature.
C6_DedupCorrect ==
  dedupPc \in {"direct_filtered", "filtered"} =>
    /\ DirectSignatures(dedupMid) = DirectSignatures(dedupIn)
    /\ \A sig \in DirectSignatures(dedupIn) : CountDirectWith(dedupMid, sig) = 1

\* two direct links written differently (relative and absolute) with one signature
\* went in, one came out
C6_Witness ==
  /\ dedupPc = "direct_filtered"
  /\ Len(dedupIn) = 2
  /\ dedupIn[1].href = HrefAbc100
  /\ dedupIn[2].href = HrefAbc100Abs
  /\ Len(dedupMid) = 1

\* position in the input of the item with handle h
InputIndex(h) == CHOOSE i \in DOMAIN dedupIn : dedupIn[i].element = h

\* C7: the deduplicated output is a subsequence of the input (same items, in
\* increasing input position); each kept item is the first input item of its kind
\* with its signature; and every input item is kept or has an earlier twin.
C7_OrderPreserved ==
  dedupPc = "filtered" =>
    /\ \A k \in DOMAIN dedupOut : \E i \in DOMAIN dedupIn : dedupIn[i] = dedupOut[k]
    /\ \A k, m \in DOMAIN dedupOut :
         k < m => InputIndex(dedupOut[k].element) < InputIndex(dedupOut[m].element)
    /\ \A k \in DOMAIN dedupOut :
         \A j \in 1..(InputIndex(dedupOut[k].element) - 1) :
           ~ /\ dedupIn[j].type = dedupOut[k].type
             /\ ItemSignature(dedupOut[k]) # None
             /\ ItemSignature(dedupIn[j]) = ItemSignature(dedupOut[k])
    /\ \A i \in DOMAIN dedupIn :
         \/ \E k \in DOMAIN dedupOut : dedupOut[k] = dedupIn[i]
         \/ \E j \in 1..(i - 1) :
              /\ dedupIn[j].type = dedupIn[i].type
              /\ ItemSignature(dedupIn[i]) # None
              /\ ItemSignature(dedupIn[j]) = ItemSignature(dedupIn[i])

\* the capture list [/abc/status/100, /abc/status/100, /xyz/status/200] gives
\* [/abc/status/100 (the first one), /xyz/status/200]
C7_Witness ==
  /\ dedupPc = "filtered"
  /\ Len(dedupIn) = 3
  /\ dedupIn[1].href = HrefAbc100
  /\ dedupIn[2].href = HrefAbc100
  /\ dedupIn[3].href = HrefXyz200
  /\ dedupOut = <<dedupIn[1], dedupIn[3]>>

\* the items of one kind, in their order
KindOnly(links, kind) == SelectSeq(links, LAMBDA item : item.type = kind)

\* the items stand in the order of their input positions
InInputOrder(links) ==
  \A k, m \in DOMAIN links :
    k < m => InputIndex(links[k].element) < InputIndex(links[m].element)

\* an earlier input item of the same kind has the signature of dedupIn[i]
HasEarlierTwin(i) ==
  \E j \in 1..(i - 1) :
    /\ dedupIn[j].type = dedupIn[i].type
    /\ ItemSignature(dedupIn[i]) # None
    /\ ItemSignature(dedupIn[j]) = ItemSignature(dedupIn[i])

\* C23: filter_duplicate_direct_links returns the embedded items unchanged, all of
\* them and in their place among the items it keeps; filter_duplicate_embedded_links
\* does so for the direct links; and an item is removed only as the duplicate of an
\* earlier item of its own kind, never of one of the other kind.
C23_KindsIndependent ==
  /\ dedupPc \in {"direct_filtered", "filtered"} =>
       /\ KindOnly(dedupMid, "embedded") = KindOnly(dedupIn, "embedded")
       /\ InInputOrder(dedupMid)
  /\ dedupPc = "filtered" =>
       /\ KindOnly(dedupOut, "direct_link") = KindOnly(dedupMid, "direct_link")
       /\ KindOnly(dedupOut, "embedded") =
            filter_duplicate_embedded_links(KindOnly(dedupIn, "embedded"))
       /\ KindOnly(dedupOut, "direct_link") =
            filter_duplicate_direct_links(KindOnly(dedupIn, "direct_link"))
       /\ InInputOrder(dedupOut)
       /\ \A i \in DOMAIN dedupIn :
            ~HasEarlierTwin(i) => \E k \in DOMAIN dedupOut : dedupOut[k] = dedupIn[i]

\* an embedded render of /abc/status/100, then a direct link to /abc/status/100,
\* then a second direct link to it: the embedded item and the first link are kept
C23_Witness ==
  /\ dedupPc = "filtered"
  /\ Len(dedupIn) = 3
  /\ dedupIn[1].type = "embedded"
  /\ dedupIn[1].signature = extract_embedded_signature(
                              EmbeddedNode(TextHi, HtmlOf(HrefAbc100), Box(10, 300), FALSE,
                                           PostAbc100))
  /\ dedupIn[2].href = HrefAbc100
  /\ dedupIn[3].href = HrefAbc100Abs
  /\ dedupOut = <<dedupIn[1], dedupIn[2]>>

\* the positions at which a list holds the item
Occurrences(links, item) == {k \in DOMAIN links : links[k] = item}

\* dedupIn[i] is a direct link whose reference is not status-shaped
NonStatusLink(i) ==
  /\ dedupIn[i].type = "direct_link"
  /\ dedupIn[i].href \in NonStatusHrefs

\* C24: a direct link whose path does not match /<account>/status/<id> is in the
\* output of each filter once for each of its occurrences in the input, whatever
\* other items, with the same href or not, the input holds.
C24_NonStatusKept ==
  /\ dedupPc \in {"direct_filtered", "filtered"} =>
       \A i \in DOMAIN dedupIn :
         NonStatusLink(i) => Cardinality(Occurrences(dedupMid, dedupIn[i])) = 1
  /\ dedupPc = "filtered" =>
       /\ \A i \in DOMAIN dedupIn :
            NonStatusLink(i) => Cardinality(Occurrences(dedupOut, dedupIn[i])) = 1
       /\ \A href \in {dedupIn[i].href : i \in {k \in DOMAIN dedupIn : NonStatusLink(k)}} :
            Cardinality({k \in DOMAIN dedupOut : dedupOut[k].href = href}) =
              Cardinality({i \in DOMAIN dedupIn : dedupIn[i].href = href})

\* three anchors with the href /i/web/status/100 went in, three came out
C24_Witness ==
  /\ dedupPc = "filtered"
  /\ Len(dedupIn) = 3
  /\ \A i \in 1..3 : dedupIn[i].href = HrefWeb
  /\ dedupOut = dedupIn

\* references to the post 100 of the account abc: relative and absolute, with and
\* without trailing path segments and query
Abc100Forms ==
  {HrefAbc100, HrefAbc100Abs, HrefAbc100Photo, HrefAbc100Query, HrefAbc100Upper}

\* C25: every form of a reference to one post, relative or absolute, with or
\* without trailing segments, has the signature (account, id), and of the direct
\* links of a capture list that refer to the post in any of these forms the
\* deduplicator keeps exactly one.
C25_FormIndependent ==
  dedupPc = "filtered" =>
    /\ \A i \in DOMAIN dedupIn :
         dedupIn[i].href \in Abc100Forms =>
           extract_status_signature(dedupIn[i].href) = <<AcctAbc, Id100>>
    /\ Cardinality({k \in DOMAIN dedupOut : dedupOut[k].href \in Abc100Forms}) <= 1

(***************************************************************************)
(* scroll_and_capture_links                                                *)
(***************************************************************************)
SCROLLS_COUNT_FOR_EACH_CAPTURE == 2

ScrollCeiling == 50

\* the history of the conversation the page shows
History == IF openChat = 0 THEN <<>> ELSE chats[openChat]

\* positions in the history of the nodes that are in the document
DocIndexes == loadedFrom..Len(History)

\* one pass of "for element in embedded_elements": node k of the history, when it
\* matches the embedded selector, is appended unless its handle is already captured
RECURSIVE sweep_embedded(_, _, _, _, _)
sweep_embedded(links, hist, k, tag, existing_embedded_elements) ==
  IF k > Len(hist) THEN links
  ELSE IF hist[k].type = "embedded" /\ <<tag, k>> \notin existing_embedded_elements
       THEN sweep_embedded(Append(links, CaptureItem(hist[k], <<tag, k>>)), hist, k + 1, tag,
                           existing_embedded_elements)
       ELSE sweep_embedded(links, hist, k + 1, tag, existing_embedded_elements)

\* one pass of "for link in direct_link_elements": an anchor is appended when its
\* href is not among the hrefs captured before this sweep
RECURSIVE sweep_direct(_, _, _, _, _)
sweep_direct(links, hist, k, tag, existing_direct_hrefs) ==
  IF k > Len(hist) THEN links
  ELSE IF /\ hist[k].type = "direct_link"
          /\ hist[k].href # <<>>
          /\ hist[k].href \notin existing_direct_hrefs
       THEN sweep_direct(Append(links, CaptureItem(hist[k], <<tag, k>>)), hist, k + 1, tag,
                         existing_direct_hrefs)
       ELSE sweep_direct(links, hist, k + 1, tag, existing_direct_hrefs)

\* existing_embedded_elements / existing_elements: the handles of the embedded
\* items captured so far
existing_embedded_elements(links) ==
  {links[i].element : i \in {j \in DOMAIN links : links[j].type = "embedded"}}

\* existing_direct_hrefs / existing_hrefs: the hrefs of the direct links captured
\* so far
existing_direct_hrefs(links) ==
  {links[i].href : i \in {j \in DOMAIN links :
                            links[j].type = "direct_link" /\ links[j].href # <<>>}}

\* previous_scroll_top: None is <<>>, an offset n is <<n>>
\* previous_scroll_top is not None and current_scroll_top == previous_scroll_top
top_reached_Never(previous, current) == FALSE

top_reached(previous, current) == previous # None /\ current = previous[1]

\* scroll_count >= 50
ceiling_reached_OffByOne(count) == count > ScrollCeiling

ceiling_reached(count) == count >= ScrollCeiling

\* if chat_viewport: chat_viewport.query_selector('div:has-text("Done")') finds a
\* message; chat_viewport is whether page.query_selector found the viewport
done_message_in_document(chat_viewport) ==
  chat_viewport /\ \E k \in DocIndexes : History[k].type = "done_message"

\* the loop over the handles a query returned awaits the driver for each of them
\* (extract_embedded_signature, get_attribute): the site may load older messages
\* meanwhile, and the loop still runs over the document as the query saw it
loaded_meanwhile == \E k \in 1..loadedFrom : loadedFrom' = k

\* entry: the locals of lines 558-561
ScrollEnter ==
  /\ s_pc' = "loop"
  /\ captured_links' = <<>>
  /\ done_message_found' = FALSE
  /\ scroll_count' = 0
  /\ previous_scroll_top' = None
  /\ s_result' = <<>>
  /\ scrollsDone' = 0
  /\ lastChange' = 0
  /\ exitFrom' = 0

\* the loop's head: the offset is the one of the step before, the loop ends
ScrollTopReached ==
  /\ s_pc = "loop"
  /\ top_reached(previous_scroll_top, scrollTop)
  /\ scroll_count' = scroll_count + 1
  /\ s_pc' = "final"
  /\ exitFrom' = loadedFrom
  /\ UNCHANGED <<captured_links, done_message_found, previous_scroll_top, s_result,
                 scrollsDone, lastChange>>
  /\ UNCHANGED <<siteVars, scrollFrame>>

\* the loop's head: scrollBy one window height, then the settle delay; a step whose
\* number is a multiple of SCROLLS_COUNT_FOR_EACH_CAPTURE goes on to the capture
ScrollStep ==
  /\ s_pc = "loop"
  /\ ~top_reached(previous_scroll_top, scrollTop)
  /\ scroll_count' = scroll_count + 1
  /\ \E offset \in 0..maxScroll :
       /\ scrollTop' = offset
       /\ lastChange' = IF offset # scrollTop THEN scrollsDone + 1 ELSE lastChange
  /\ scrollsDone' = scrollsDone + 1
  /\ previous_scroll_top' = <<scrollTop>>
  /\ s_pc' = IF scroll_count' % SCROLLS_COUNT_FOR_EACH_CAPTURE = 0 THEN "embedded" ELSE "viewport"
  /\ UNCHANGED <<captured_links, done_message_found, s_result, exitFrom>>
  /\ UNCHANGED <<chats, openChat, loadedFrom, maxScroll, scrollFrame>>

\* the capture of a step: the query of the embedded selector and the loop over what
\* it returned; every query returns fresh element handles, <<tag, k>> for node k in
\* the capture numbered tag
BatchEmbedded ==
  /\ s_pc = "embedded"
  /\ captured_links' = sweep_embedded(captured_links, History, loadedFrom, scroll_count,
                                      existing_embedded_elements(captured_links))
  /\ s_pc' = "links"
  /\ UNCHANGED <<done_message_found, scroll_count, previous_scroll_top, s_result,
                 scrollsDone, lastChange, exitFrom>>
  /\ loaded_meanwhile
  /\ UNCHANGED <<chats, openChat, scrollTop, maxScroll, scrollFrame>>

\* the capture of a step: the query of the link selector and the loop over what it
\* returned; existing_direct_hrefs are the hrefs captured before this capture
BatchLinks ==
  /\ s_pc = "links"
  /\ captured_links' = sweep_direct(captured_links, History, loadedFrom, scroll_count,
                                    existing_direct_hrefs(captured_links))
  /\ s_pc' = "viewport"
  /\ UNCHANGED <<done_message_found, scroll_count, previous_scroll_top, s_result,
                 scrollsDone, lastChange, exitFrom>>
  /\ loaded_meanwhile
  /\ UNCHANGED <<chats, openChat, scrollTop, maxScroll, scrollFrame>>

\* the rest of a step: the viewport is found and the "Done" message is in it
ScrollDoneFound ==
  /\ s_pc = "viewport"
  /\ \E chat_viewport \in BOOLEAN : done_message_in_document(chat_viewport)
  /\ done_message_found' = TRUE
  /\ s_pc' = "final"
  /\ exitFrom' = loadedFrom
  /\ UNCHANGED <<captured_links, scroll_count, previous_scroll_top, s_result, scrollsDone,
                 lastChange>>
  /\ UNCHANGED <<siteVars, scrollFrame>>

\* the rest of a step: no viewport or no "Done" message, the safety limit is reached
ScrollCeilingHit ==
  /\ s_pc = "viewport"
  /\ \E chat_viewport \in BOOLEAN : ~done_message_in_document(chat_viewport)
  /\ ceiling_reached(scroll_count)
  /\ s_pc' = "final"
  /\ exitFrom' = loadedFrom
  /\ UNCHANGED <<captured_links, done_message_found, scroll_count, previous_scroll_top,
                 s_result, scrollsDone, lastChange>>
  /\ UNCHANGED <<siteVars, scrollFrame>>

\* the rest of a step: no viewport or no "Done" message, back to the loop's head
ScrollAgain ==
  /\ s_pc = "viewport"
  /\ \E chat_viewport \in BOOLEAN : ~done_message_in_document(chat_viewport)
  /\ ~ceiling_reached(scroll_count)
  /\ s_pc' = "loop"
  /\ UNCHANGED <<captured_links, done_message_found, scroll_count, previous_scroll_top,
                 s_result, scrollsDone, lastChange, exitFrom>>
  /\ UNCHANGED <<siteVars, scrollFrame>>

\* after the loop: the final query of the embedded selector and its loop
FinalEmbedded ==
  /\ s_pc = "final"
  /\ captured_links' = sweep_embedded(captured_links, History, loadedFrom, 0,
                                      existing_embedded_elements(captured_links))
  /\ s_pc' = "final_links"
  /\ UNCHANGED <<done_message_found, scroll_count, previous_scroll_top, s_result,
                 scrollsDone, lastChange, exitFrom>>
  /\ loaded_meanwhile
  /\ UNCHANGED <<chats, openChat, scrollTop, maxScroll, scrollFrame>>

\* a function that filters what it has captured, without the final query of the
\* link selector
ScrollFinal_NoSweep ==
  /\ s_pc = "final_links"
  /\ captured_links' = captured_links
  /\ s_result' = filter_duplicate_embedded_links(filter_duplicate_direct_links(captured_links'))
  /\ s_pc' = "returned"
  /\ UNCHANGED <<done_message_found, scroll_count, previous_scroll_top, scrollsDone,
                 lastChange, exitFrom>>
  /\ loaded_meanwhile
  /\ UNCHANGED <<chats, openChat, scrollTop, maxScroll, scrollFrame>>

\* after the loop: the final query of the link selector and its loop, then the two
\* filters
ScrollFinal ==
  /\ s_pc = "final_links"
  /\ captured_links' = sweep_direct(captured_links, History, loadedFrom, 0,
                                    existing_direct_hrefs(captured_links))
  /\ s_result' = filter_duplicate_embedded_links(filter_duplicate_direct_links(captured_links'))
  /\ s_pc' = "returned"
  /\ UNCHANGED <<done_message_found, scroll_count, previous_scroll_top, scrollsDone,
                 lastChange, exitFrom>>
  /\ loaded_meanwhile
  /\ UNCHANGED <<chats, openChat, scrollTop, maxScroll, scrollFrame>>

\* the positions of the function at which it awaits a driver call
ScrollAwaiting == {"loop", "embedded", "links", "viewport", "final", "final_links"}

\* a driver call of the function raises; the function has no handler
ScrollRaise ==
  /\ s_pc \in ScrollAwaiting
  /\ s_pc' = "raised"
  /\ UNCHANGED <<captured_links, done_message_found, scroll_count, previous_scroll_top,
                 s_result, scrollsDone, lastChange, exitFrom>>
  /\ UNCHANGED <<siteVars, scrollFrame>>

\* the site loads older messages into the document while the pane is scrolled
LoadOlder ==
  /\ s_pc \in ScrollAwaiting
  /\ loadedFrom > 1
  /\ \E k \in 1..(loadedFrom - 1) : loadedFrom' = k
  /\ UNCHANGED <<chats, openChat, scrollTop, maxScroll>>
  /\ UNCHANGED <<scrollVars, scrollFrame>>

ScrollNext ==
  \/ ScrollTopReached
  \/ ScrollStep
  \/ BatchEmbedded
  \/ BatchLinks
  \/ ScrollDoneFound
  \/ ScrollCeilingHit
  \/ ScrollAgain
  \/ FinalEmbedded
  \/ ScrollFinal
  \/ ScrollRaise
  \/ LoadOlder

(***************************************************************************)
(* SpecScroll: one call of scroll_and_capture_links on an open             *)
(* conversation, for each of the conversations of ScrollWorlds, every      *)
(* behaviour of the scroll offset within 0..maxScroll and every moment at  *)
(* which the site loads the older messages.                                *)
(***************************************************************************)
MaxScrollTop == 1

\* the k-th node of a history is 200 px below the one before it
NodeAt(kind, k) ==
  CASE kind = "abc100" -> LinkNode(HrefAbc100, PostAbc100, 100 + 200 * k)
    [] kind = "abc100abs" -> LinkNode(HrefAbc100Abs, PostAbc100, 100 + 200 * k)
    [] kind = "xyz200" -> LinkNode(HrefXyz200, PostXyz200, 100 + 200 * k)
    [] kind = "embedded" -> EmbeddedNode(TextHi, HtmlOf(HrefAbc100), Box(10, 100 + 200 * k),
                                         FALSE, PostAbc100)
    [] kind = "embedded200" -> EmbeddedNode(TextYo, HtmlOf(HrefXyz200), Box(10, 100 + 200 * k),
                                            FALSE, PostXyz200)
    [] kind = "plain" -> EmbeddedNode(TextHi, HtmlPlain, Box(13, 104 + 200 * k), FALSE, PostOther)
    [] kind = "bare" -> EmbeddedNode(<<>>, HtmlPlain, Box(13, 104 + 200 * k), FALSE, PostOther)
    [] kind = "done" -> DoneNode(100 + 200 * k)

HistoryOf(kinds) == [k \in DOMAIN kinds |-> NodeAt(kinds[k], k)]

\* a conversation and the first node of it that is loaded when the capture starts
World(kinds, from) == [history |-> HistoryOf(kinds), loadedFrom |-> from]

ScrollWorlds ==
  {World(<<>>, 1),
   World(<<"abc100", "done", "xyz200">>, 1),
   World(<<"abc100", "done", "xyz200">>, 3),
   World(<<"done", "abc100", "xyz200">>, 1),
   World(<<"done", "embedded", "xyz200">>, 3),
   World(<<"abc100", "abc100", "xyz200">>, 1),
   World(<<"abc100", "abc100abs", "embedded">>, 1),
   World(<<"embedded", "embedded200", "embedded">>, 1),
   World(<<"bare", "plain">>, 1),
   World(<<"done">>, 1)}

ScrollInit ==
  /\ \E w \in ScrollWorlds :
       /\ chats = <<w.history>>
       /\ loadedFrom = w.loadedFrom
  /\ openChat = 1
  /\ maxScroll \in 0..MaxScrollTop
  /\ scrollTop \in 0..maxScroll
  /\ s_pc = "loop"
  /\ captured_links = <<>>
  /\ done_message_found = FALSE
  /\ scroll_count = 0
  /\ previous_scroll_top = None
  /\ s_result = <<>>
  /\ scrollsDone = 0
  /\ lastChange = 0
  /\ exitFrom = 0
  /\ DedupIdle
  /\ PostsIdle
  /\ ExecIdle
  /\ OrchIdle
  /\ StartIdle
  /\ UndoIdle

SpecScroll == ScrollInit /\ [][ScrollNext]_vars

(***************************************************************************)
(* Properties of the scroll-capture engine                                 *)
(***************************************************************************)
\* the document node a captured item was taken from
NodeOf(item) == History[item.element[2]]

DoneIndexes == {k \in DOMAIN History : History[k].type = "done_message"}

\* C8: when the conversation holds a "Done" message, every candidate of the capture
\* result lies strictly below the bottom edge of the most recent one.
C8_OnlyBelowWatermark ==
  (s_pc = "returned" /\ DoneIndexes # {}) =>
    LET w == History[CHOOSE k \in DoneIndexes : \A m \in DoneIndexes : m <= k]
    IN \A i \in DOMAIN s_result : NodeOf(s_result[i]).box.y > w.box.y + w.box.height

\* C9: when no scrollBy changes the offset, the loop ends in its second step; when
\* none after the first changes it, the loop ends after at most two scrollBy calls.
C9_StopsAtTop ==
  /\ lastChange = 0 => (scroll_count <= 2 /\ scrollsDone <= 1)
  /\ lastChange <= 1 => (scroll_count <= 3 /\ scrollsDone <= 2)

\* the offset could have moved and never did: the loop ended in its second step,
\* without a "Done" message
C9_Witness ==
  /\ s_pc = "returned"
  /\ maxScroll >= 1
  /\ lastChange = 0
  /\ scroll_count = 2
  /\ ~done_message_found

\* C10: the loop never starts a step beyond the 50th, whatever the offset does.
C10_ScrollCeiling ==
  /\ scroll_count <= ScrollCeiling
  /\ scrollsDone <= ScrollCeiling
  /\ s_pc = "loop" => scroll_count < ScrollCeiling

\* a feed whose offset changed in every one of 50 steps and showed no "Done"
\* message: the call returned its result
C10_Witness ==
  /\ s_pc = "returned"
  /\ scrollsDone = ScrollCeiling
  /\ lastChange = ScrollCeiling
  /\ ~done_message_found

\* C21: the raw capture list never holds two direct-link entries with the same
\* href string, after a batch sweep and after the final sweep.
C21_RawHrefsUnique ==
  \A i, j \in DOMAIN captured_links :
    (/\ i < j
     /\ captured_links[i].type = "direct_link"
     /\ captured_links[j].type = "direct_link")
    => captured_links[i].href # captured_links[j].href

\* node k of the history is a candidate: it matches one of the two selectors
IsCandidate(k) == History[k].type \in {"direct_link", "embedded"}

\* the list holds node k or an item the deduplicator takes for the same post: one
\* of the node's kind with the node's signature
Represents(links, k) ==
  \E i \in DOMAIN links :
    /\ links[i].type = History[k].type
    /\ \/ links[i].element[2] = k
       \/ /\ ItemSignature(links[i]) # None
          /\ ItemSignature(links[i]) = ItemSignature(CaptureItem(History[k], <<0, k>>))

\* the positions of the nodes that were in the document when the loop ended
ExitIndexes == exitFrom..Len(History)

\* C22: when scroll_and_capture_links has returned, whichever way its loop ended,
\* the capture made after the loop has taken every candidate that was in the
\* document when the loop ended (an embedded element by its handle of that capture,
\* a direct link by its href), and the result holds every such candidate up to
\* deduplication.
C22_FinalSweep ==
  s_pc = "returned" =>
    \A k \in ExitIndexes :
      IsCandidate(k) =>
        /\ \E i \in DOMAIN captured_links :
             IF History[k].type = "embedded"
             THEN captured_links[i].element = <<0, k>>
             ELSE captured_links[i].type = "direct_link" /\ captured_links[i].href = History[k].href
        /\ Represents(s_result, k)

\* the "Done" message ended the loop in its first step, before any batch capture;
\* the two links of the document are in the result
C22_Witness ==
  /\ s_pc = "returned"
  /\ scroll_count = 1
  /\ done_message_found
  /\ Cardinality({k \in ExitIndexes : IsCandidate(k)}) = 2
  /\ Len(s_result) = 2

\* round(n / 10) * 10 of a non-negative whole number: to the nearest ten, a half to
\* the even quotient
RoundToTen(n) ==
  LET q == n \div 10
      r == n % 10
  IN IF r < 5 THEN 10 * q
     ELSE IF r > 5 THEN 10 * (q + 1)
     ELSE 10 * (q + (q % 2))

\* the identity of an element by its box, the position rounded to 10 px
CoarsePosition(box) ==
  <<"p", "o", "s", "_">> \o int_to_str(RoundToTen(box.x)) \o <<"_">>
    \o int_to_str(RoundToTen(box.y))

\* C26: an embedded item captured from an element whose markup holds no
\* <account>/status/<id> pattern has the signature of the element's bounding box,
\* with the position rounded to the nearest 10 px.
C26_PositionFallback ==
  \A i \in DOMAIN captured_links :
    (/\ captured_links[i].type = "embedded"
     /\ NodeOf(captured_links[i]).html = HtmlPlain
     /\ ~NodeOf(captured_links[i]).broken)
    => captured_links[i].signature = CoarsePosition(NodeOf(captured_links[i]).box)

\* two elements are renders of one post: markup with the same status reference and
\* the same text, both readable
SameRender(a, b) ==
  /\ a.type = "embedded" /\ b.type = "embedded"
  /\ ~a.broken /\ ~b.broken
  /\ a.html = b.html
  /\ a.html \in {HtmlOf(HrefAbc100), HtmlOf(HrefXyz200)}
  /\ a.text = b.text

\* the items of a list captured from renders of the post that node k shows
RendersOf(links, k) ==
  {i \in DOMAIN links : links[i].type = "embedded" /\ SameRender(NodeOf(links[i]), History[k])}

\* C27: items captured from two renders of one post at different positions have
\* equal signatures, and the result of the capture holds exactly one item with that
\* signature.
C27_LayoutShift ==
  \A k \in DocIndexes :
    /\ None \notin {captured_links[i].signature : i \in RendersOf(captured_links, k)}
    /\ Cardinality({captured_links[i].signature : i \in RendersOf(captured_links, k)}) <= 1
    /\ (s_pc = "returned" /\ RendersOf(captured_links, k) # {}) =>
         Cardinality(RendersOf(s_result, k)) = 1

\* two renders of the post abc/100, 400 px apart, were both captured, the batch
\* capture and the final capture each taking them: one item is in the result
C27_Witness ==
  /\ s_pc = "returned"
  /\ \E i, j \in DOMAIN captured_links :
       /\ captured_links[i].element[1] # captured_links[j].element[1]
       /\ NodeOf(captured_links[i]).box.y + 400 = NodeOf(captured_links[j]).box.y
       /\ SameRender(NodeOf(captured_links[i]), NodeOf(captured_links[j]))
  /\ Cardinality({k \in DOMAIN s_result : NodeOf(s_result[k]).post = PostAbc100}) = 1

(***************************************************************************)
(* retweet_post: the Action Executor on the isolated view.  The page shows *)
(* the undo affordance exactly when its post is reposted; every other      *)
(* answer of the driver (a selector found or not, a call raising) is       *)
(* chosen freely.                                                          *)
(***************************************************************************)
MaxRetries == 3

ConfirmCap == 2

\* wait_time = 5 + (retry_count * 3), slept after the reload of a retry
\* a delay that does not grow with the retry index
reload_wait_Flat(count) == 5 + (count * 0)

reload_wait(count) == 5 + (count * 3)

\* wait_time = 3 + (retry_count * 2), slept by the except branch before it retries
error_wait(count) == 3 + (count * 2)

\* timeout = 5000 + (retry_count * 2000), of every wait_for_selector of an attempt
selector_timeout(count) == 5000 + (count * 2000)

\* retry_count < max_retries
\* the comparison with one retry fewer
can_retry_Fewer(count) == count < MaxRetries - 1

can_retry(count) == count < MaxRetries

\* get_by_test_id("unretweet") or the texts "Undo repost" / "Undo Retweet" are there
undo_affordance_present == amplified[pagePost]

\* the attempts of the call so far
Attempts == retry_count - entryRetry + 1

\* the call retweet_post(url_page): retry_count = 0
RetweetEnter ==
  /\ r_pc' = "start"
  /\ retry_count' = 0
  /\ r_result' = "none"
  /\ entryRetry' = 0
  /\ entryAmplified' = amplified[pagePost']
  /\ reloads' = 0
  /\ misses' = 0
  /\ r_clicks' = 0
  /\ r_confirms' = 0
  /\ r_cause' = "none"
  /\ wait_time' = 0
  /\ timeout' = 0

\* the except branch: the next attempt, or "failed" when the retries are used up
OnError ==
  IF can_retry(retry_count)
  THEN /\ wait_time' = error_wait(retry_count)
       /\ timeout' = 0
       /\ retry_count' = retry_count + 1
       /\ r_pc' = "start"
       /\ UNCHANGED <<r_result, r_cause>>
  ELSE /\ r_result' = "failed"
       /\ r_cause' = "exhausted"
       /\ r_pc' = "returned"
       /\ wait_time' = 0
       /\ timeout' = 0
       /\ UNCHANGED retry_count

\* the first attempt: no reload
RetweetFirstAttempt ==
  /\ r_pc = "start"
  /\ retry_count = 0
  /\ r_pc' = "check"
  /\ UNCHANGED <<retry_count, r_result, entryRetry, entryAmplified, reloads, misses, r_clicks,
                 r_confirms, r_cause>>
  /\ UNCHANGED <<wait_time, timeout>>
  /\ UNCHANGED <<postVars, execFrame>>

\* a retry: page.reload, then the wait
RetweetReload ==
  /\ r_pc = "start"
  /\ retry_count > 0
  /\ reloads' = reloads + 1
  /\ r_pc' = "check"
  /\ UNCHANGED <<retry_count, r_result, entryRetry, entryAmplified, misses, r_clicks,
                 r_confirms, r_cause>>
  /\ wait_time' = reload_wait(retry_count)
  /\ UNCHANGED timeout
  /\ UNCHANGED <<postVars, execFrame>>

\* a retry: page.reload raises
RetweetReloadRaises ==
  /\ r_pc = "start"
  /\ retry_count > 0
  /\ reloads' = reloads + 1
  /\ OnError
  /\ UNCHANGED <<entryRetry, entryAmplified, misses, r_clicks, r_confirms>>
  /\ UNCHANGED <<postVars, execFrame>>

\* the idempotence check finds the undo affordance
RetweetAlready ==
  /\ r_pc = "check"
  /\ undo_affordance_present
  /\ r_result' = "already_retweeted"
  /\ r_cause' = "already"
  /\ r_pc' = "returned"
  /\ UNCHANGED <<retry_count, entryRetry, entryAmplified, reloads, misses, r_clicks, r_confirms>>
  /\ wait_time' = 0
  /\ timeout' = 0
  /\ UNCHANGED <<postVars, execFrame>>

\* the idempotence check finds nothing
RetweetNotYet ==
  /\ r_pc = "check"
  /\ ~undo_affordance_present
  /\ r_pc' = "primary"
  /\ UNCHANGED <<retry_count, r_result, entryRetry, entryAmplified, reloads, misses, r_clicks,
                 r_confirms, r_cause>>
  /\ UNCHANGED <<wait_time, timeout>>
  /\ UNCHANGED <<postVars, execFrame>>

\* a query of the idempotence check raises: the error is logged and the attempt goes on
RetweetCheckRaises ==
  /\ r_pc = "check"
  /\ r_pc' = "primary"
  /\ UNCHANGED <<retry_count, r_result, entryRetry, entryAmplified, reloads, misses, r_clicks,
                 r_confirms, r_cause>>
  /\ UNCHANGED <<wait_time, timeout>>
  /\ UNCHANGED <<postVars, execFrame>>

\* no selector and no button label gives the repost button: return "failed"
RetweetPrimaryMiss ==
  /\ r_pc = "primary"
  /\ misses' = misses + 1
  /\ r_result' = "failed"
  /\ r_cause' = "locate_miss"
  /\ r_pc' = "returned"
  /\ UNCHANGED <<retry_count, entryRetry, entryAmplified, reloads, r_clicks, r_confirms>>
  /\ wait_time' = 0
  /\ timeout' = 0
  /\ UNCHANGED <<postVars, execFrame>>

\* the repost button is found and clicked
RetweetPrimaryClick ==
  /\ r_pc = "primary"
  /\ r_clicks' = r_clicks + 1
  /\ r_pc' = "option"
  /\ UNCHANGED <<retry_count, r_result, entryRetry, entryAmplified, reloads, misses,
                 r_confirms, r_cause>>
  /\ timeout' = selector_timeout(retry_count)
  /\ UNCHANGED wait_time
  /\ UNCHANGED <<postVars, execFrame>>

\* the repost button is found and its click raises
RetweetPrimaryClickRaises ==
  /\ r_pc = "primary"
  /\ OnError
  /\ UNCHANGED <<entryRetry, entryAmplified, reloads, misses, r_clicks, r_confirms>>
  /\ UNCHANGED <<postVars, execFrame>>

\* no selector and no menu item gives the confirming option: return "failed"
RetweetOptionMiss ==
  /\ r_pc = "option"
  /\ r_result' = "failed"
  /\ r_cause' = "option_miss"
  /\ r_pc' = "returned"
  /\ UNCHANGED <<retry_count, entryRetry, entryAmplified, reloads, misses, r_clicks, r_confirms>>
  /\ wait_time' = 0
  /\ timeout' = 0
  /\ UNCHANGED <<postVars, execFrame>>

\* the confirming option is found and clicked: the post is reposted
RetweetOptionClick ==
  /\ r_pc = "option"
  /\ amplified' = [amplified EXCEPT ![pagePost] = TRUE]
  /\ confirms' = [confirms EXCEPT ![pagePost] = IF @ < ConfirmCap THEN @ + 1 ELSE @]
  /\ r_confirms' = r_confirms + 1
  /\ r_pc' = "verify"
  /\ UNCHANGED <<retry_count, r_result, entryRetry, entryAmplified, reloads, misses, r_clicks,
                 r_cause>>
  /\ timeout' = selector_timeout(retry_count)
  /\ UNCHANGED wait_time
  /\ UNCHANGED <<pagePost, execFrame>>

\* the confirming option is found and its click raises
RetweetOptionClickRaises ==
  /\ r_pc = "option"
  /\ OnError
  /\ UNCHANGED <<entryRetry, entryAmplified, reloads, misses, r_clicks, r_confirms>>
  /\ UNCHANGED <<postVars, execFrame>>

\* a verification that takes the missing toast for a fault of the attempt
RetweetVerify_ToastRequired ==
  /\ r_pc = "verify"
  /\ \E toast \in BOOLEAN :
       IF toast
       THEN /\ r_result' = "True"
            /\ r_cause' = "done_toast"
            /\ r_pc' = "returned"
            /\ wait_time' = 0
            /\ timeout' = 0
            /\ UNCHANGED retry_count
       ELSE OnError
  /\ UNCHANGED <<entryRetry, entryAmplified, reloads, misses, r_clicks, r_confirms>>
  /\ UNCHANGED <<postVars, execFrame>>

\* the wait for a toast, which appears or not: return True
RetweetVerify ==
  /\ r_pc = "verify"
  /\ \E toast \in BOOLEAN :
       /\ r_result' = "True"
       /\ r_cause' = IF toast THEN "done_toast" ELSE "done"
  /\ r_pc' = "returned"
  /\ UNCHANGED <<retry_count, entryRetry, entryAmplified, reloads, misses, r_clicks, r_confirms>>
  /\ wait_time' = 0
  /\ timeout' = 0
  /\ UNCHANGED <<postVars, execFrame>>

RetweetNext ==
  \/ RetweetFirstAttempt
  \/ RetweetReload
  \/ RetweetReloadRaises
  \/ RetweetAlready
  \/ RetweetNotYet
  \/ RetweetCheckRaises
  \/ RetweetPrimaryMiss
  \/ RetweetPrimaryClick
  \/ RetweetPrimaryClickRaises
  \/ RetweetOptionMiss
  \/ RetweetOptionClick
  \/ RetweetOptionClickRaises
  \/ RetweetVerify

(***************************************************************************)
(* SpecExec: one invocation of retweet_post, at every retry index, on a    *)
(* page whose post is or is not reposted.                                  *)
(***************************************************************************)
ExecInit ==
  /\ pagePost = PostAbc100
  /\ \E a \in BOOLEAN : amplified = [p \in Posts |-> p = PostAbc100 /\ a]
  /\ confirms = [p \in Posts |-> 0]
  /\ retry_count \in 0..MaxRetries
  /\ entryRetry = retry_count
  /\ entryAmplified = amplified[pagePost]
  /\ r_pc = "start"
  /\ r_result = "none"
  /\ reloads = 0
  /\ misses = 0
  /\ r_clicks = 0
  /\ r_confirms = 0
  /\ r_cause = "none"
  /\ wait_time = 0
  /\ timeout = 0
  /\ DedupIdle
  /\ SiteIdle
  /\ ScrollIdle
  /\ OrchIdle
  /\ StartIdle
  /\ UndoIdle

SpecExec == ExecInit /\ [][RetweetNext]_vars

(***************************************************************************)
(* Properties of the Action Executor                                       *)
(***************************************************************************)
\* C1: an invocation on a page that is already reposted makes no click, neither on
\* the repost button nor on the confirming option, and returns "already_retweeted".
C1_Idempotent ==
  entryAmplified =>
    /\ r_clicks = 0
    /\ r_confirms = 0
    /\ r_pc = "returned" => r_result = "already_retweeted"

\* C4: a call of retweet_post(page) that meets only failures, and so returns
\* "failed", has made exactly max_retries + 1 attempts.
C4_FailedAfterAllAttempts ==
  (r_pc = "returned" /\ entryRetry = 0 /\ r_result = "failed") =>
    Attempts = MaxRetries + 1

\* the faults raised in the call so far
Raised == (retry_count - entryRetry) + (IF r_cause = "exhausted" THEN 1 ELSE 0)

\* C5: an attempt that cannot locate the repost button is followed by another one
\* while retries are left; and a call whose only failures were k such attempts
\* returns True after k + 1 attempts and k reloads.
C5_RetryUntilSuccess ==
  /\ (r_pc = "returned" /\ r_cause = "locate_miss") => ~can_retry(retry_count)
  /\ (r_pc = "returned" /\ entryRetry = 0 /\ r_result = "True" /\ Raised = 0) =>
       (Attempts = misses + 1 /\ reloads = misses)

\* the steps at which a call of the driver raises: page.reload, the click on the
\* repost button, the click on the confirming option
FaultStep == RetweetReloadRaises \/ RetweetPrimaryClickRaises \/ RetweetOptionClickRaises

\* C12: a fault raised at a step of an attempt (the reload, the click on the repost
\* button, the click on the confirming option) is caught: while fewer than
\* max_retries (3) retries have been made the next attempt starts with the retry
\* index one higher, and after the third retry the call returns "failed"; in
\* neither case does the exception leave retweet_post.
C12_FaultsRetried ==
  [][FaultStep =>
       IF retry_count < 3
       THEN r_pc' = "start" /\ retry_count' = retry_count + 1 /\ r_result' = "none"
       ELSE r_pc' = "returned" /\ r_result' = "failed" /\ retry_count' = 3]_vars

\* a call that met a fault in each of its four attempts has returned "failed"
C12_Witness ==
  /\ r_pc = "returned"
  /\ entryRetry = 0
  /\ Raised = MaxRetries + 1
  /\ r_result = "failed"

\* the attempt in progress is past its first lines
InAttempt == r_pc \in {"check", "primary", "option", "verify"}

\* C29: an attempt with retry index >= 1 begins with the reload and its delay: the
\* idempotence check is entered only by the step that reloads, and while the check
\* and the clicks of the attempt are made the reloads of the call are as many as its
\* attempts with index >= 1.  The delay slept after the reload and the timeout of
\* the element waits are larger than those of every lower retry index.
C29_RetryProtocol ==
  /\ [](InAttempt =>
          /\ reloads = retry_count - (IF entryRetry = 0 THEN 0 ELSE entryRetry - 1)
          /\ retry_count >= 1 =>
               /\ wait_time = reload_wait(retry_count)
               /\ \A lower \in 1..(retry_count - 1) : reload_wait(lower) < wait_time
          /\ r_pc \in {"option", "verify"} =>
               /\ timeout = selector_timeout(retry_count)
               /\ \A lower \in 0..(retry_count - 1) : selector_timeout(lower) < timeout)
  /\ [][(r_pc' = "check" /\ retry_count' >= 1) =>
          /\ r_pc = "start"
          /\ reloads' = reloads + 1
          /\ wait_time' > wait_time
          /\ r_clicks' = r_clicks
          /\ r_confirms' = r_confirms]_vars
  /\ [][(r_clicks' # r_clicks \/ r_confirms' # r_confirms) =>
          (r_pc \in {"primary", "option"} /\ reloads' = reloads)]_vars

\* the fourth attempt of a call: three reloads were made, the delay after the last
\* was 14 s and the option is waited for with a timeout of 11 s
C29_Witness ==
  /\ r_pc = "option"
  /\ entryRetry = 0
  /\ retry_count = MaxRetries
  /\ reloads = 3
  /\ wait_time = 14
  /\ timeout = 11000

\* C28: once the confirming option has been clicked, the next step of retweet_post
\* is its return of True, with or without a toast: no retry is started, no reload
\* and no further click is made, and the result is not "failed".
C28_VerifyBestEffort ==
  [][r_pc = "verify" =>
       /\ r_pc' = "returned"
       /\ r_result' = "True"
       /\ r_cause' \in {"done", "done_toast"}
       /\ retry_count' = retry_count
       /\ reloads' = reloads
       /\ r_clicks' = r_clicks
       /\ r_confirms' = r_confirms]_vars

\* the option was clicked in the first attempt, no toast appeared within the wait,
\* and the call returned True
C28_Witness ==
  /\ r_pc = "returned"
  /\ r_cause = "done"
  /\ r_result = "True"
  /\ retry_count = 0
  /\ r_confirms = 1
  /\ amplified[pagePost]

\* C34: within one attempt the confirming option is clicked only after the
\* idempotence check of the attempt found the post not reposted and after the repost
\* button of the attempt was clicked: the attempt goes from the check to the locate
\* step only on a page without the undo affordance, the option step is entered only
\* by the click on the repost button, the confirming click is made only at the option
\* step, and an attempt that ends at the locate step or at the option step (button or
\* option not found) has made no confirming click.
C34_ClickOrdering ==
  /\ [][(r_pc = "check" /\ r_pc' = "primary") => ~undo_affordance_present]_vars
  /\ [][(r_pc # "option" /\ r_pc' = "option") =>
          (r_pc = "primary" /\ r_clicks' = r_clicks + 1)]_vars
  /\ [][r_confirms' # r_confirms =>
          (r_pc = "option" /\ r_pc' = "verify" /\ r_confirms' = r_confirms + 1)]_vars
  /\ [][(r_pc \in {"primary", "option"} /\ r_pc' \in {"start", "returned"}) =>
          r_confirms' = r_confirms]_vars

(***************************************************************************)
(* open_tweet_in_new_tab: one candidate is opened in an isolated view and  *)
(* retweet_post runs on that view.                                         *)
(***************************************************************************)
TabMaxRetries == 3

LeakCap == 1

\* the caller has the result of retweet_post: its frame is gone
ExecReturn ==
  /\ r_pc' = "idle"
  /\ retry_count' = 0
  /\ r_result' = "none"
  /\ entryRetry' = 0
  /\ entryAmplified' = FALSE
  /\ reloads' = 0
  /\ misses' = 0
  /\ r_clicks' = 0
  /\ r_confirms' = 0
  /\ r_cause' = "none"
  /\ wait_time' = 0
  /\ timeout' = 0

\* post_item = post_elements[j]
post_item == post_elements[post_j + 1]

\* the post a captured direct link leads to
PostOfLink(item) == History[item.element[2]].post

\* document.querySelectorAll of the embedded posts, in document order
linkElements ==
  SelectSeq(Slice(History, loadedFrom, Len(History)), LAMBDA n : n.type = "embedded")

\* linkElements[targetIndex], or the first element when the index is out of range
targetElement(targetIndex) ==
  IF targetIndex < Len(linkElements)
  THEN linkElements[targetIndex + 1]
  ELSE linkElements[1]

\* the call open_tweet_in_new_tab(context, page, post_item, j)
TabEnter ==
  /\ o_pc' = IF post_item'.type = "direct_link" THEN "direct" ELSE "embedded"
  /\ retry_attempt' = 0
  /\ url_page' = FALSE
  /\ o_result' = "none"
  /\ UNCHANGED <<openViews, leaked>>

\* return of open_tweet_in_new_tab
TabReturn(result) ==
  /\ o_result' = result
  /\ o_pc' = "returned"
  /\ UNCHANGED retry_attempt

\* the direct loop without the return of its last turn: the loop ends and the
\* function goes on into the loop of the embedded posts
TabRetry_FallThrough(loop) ==
  IF retry_attempt >= TabMaxRetries
  THEN IF loop = "direct"
       THEN /\ retry_attempt' = 0
            /\ o_pc' = "embedded"
            /\ UNCHANGED o_result
       ELSE TabReturn("failed")
  ELSE /\ retry_attempt' = retry_attempt + 1
       /\ o_pc' = loop
       /\ UNCHANGED o_result

\* the next turn of the retry loop, or "failed" after the last one
TabRetry(loop) ==
  IF retry_attempt >= TabMaxRetries
  THEN TabReturn("failed")
  ELSE /\ retry_attempt' = retry_attempt + 1
       /\ o_pc' = loop
       /\ UNCHANGED o_result

\* the except branch of a retry loop, with views the number of open views when the
\* exception is raised.  With no view held it goes to the next turn.  With a view
\* held it closes the view first; when that close raises, the outer except branch
\* closes it and returns "failed", and when that close raises too the exception
\* leaves the function, with the view gone or still open.
TabFault(loop, held, views) ==
  /\ url_page' = FALSE
  /\ pagePost' = "none"
  /\ \E path \in (IF held THEN {"closed", "outer_closed", "escaped"} ELSE {"none_held"}) :
       CASE path = "none_held" -> /\ TabRetry(loop)
                                  /\ openViews' = views
                                  /\ UNCHANGED leaked
         [] path = "closed" -> /\ TabRetry(loop)
                               /\ openViews' = views - 1
                               /\ UNCHANGED leaked
         [] path = "outer_closed" -> /\ TabReturn("failed")
                                     /\ openViews' = views - 1
                                     /\ UNCHANGED leaked
         [] path = "escaped" -> /\ o_pc' = "raised"
                                /\ UNCHANGED <<retry_attempt, o_result>>
                                /\ \E gone \in (IF leaked < LeakCap THEN BOOLEAN ELSE {TRUE}) :
                                     IF gone
                                     THEN openViews' = views - 1 /\ UNCHANGED leaked
                                     ELSE openViews' = views /\ leaked' = leaked + 1

\* a result mapping that takes every result but "already_retweeted" for a repost
tab_result_Optimistic(retweet_result) ==
  IF retweet_result = "already_retweeted" THEN "already_retweeted" ELSE "retweeted"

\* what the function returns for a result of retweet_post
tab_result(retweet_result) ==
  CASE retweet_result = "already_retweeted" -> "already_retweeted"
    [] retweet_result = "True" -> "retweeted"
    [] OTHER -> "failed"

\* direct link: context.new_page, goto of the link, then the call of retweet_post
\* (a captured anchor matched a[href*="/status/"], so its href is never empty)
TabDirectOpen ==
  /\ o_pc = "direct"
  /\ url_page' = TRUE
  /\ openViews' = openViews + 1
  /\ pagePost' = PostOfLink(post_item)
  /\ RetweetEnter
  /\ o_pc' = "direct_run"
  /\ UNCHANGED <<retry_attempt, o_result, leaked, amplified, confirms>>
  /\ UNCHANGED tabFrame

\* direct link: new_page raises (no view is held) or goto raises (the view is held)
TabDirectOpenRaises ==
  /\ o_pc = "direct"
  /\ \E held \in BOOLEAN : TabFault("direct", held, IF held THEN openViews + 1 ELSE openViews)
  /\ UNCHANGED <<amplified, confirms, execVars>>
  /\ UNCHANGED tabFrame

\* direct link: the result is returned with url_page.close left out
TabDirectReturned_NoClose ==
  /\ o_pc = "direct_run"
  /\ r_pc = "returned"
  /\ url_page' = FALSE
  /\ pagePost' = "none"
  /\ IF r_result = "failed" /\ retry_attempt < TabMaxRetries
     THEN /\ retry_attempt' = retry_attempt + 1
          /\ o_pc' = "direct"
          /\ UNCHANGED o_result
     ELSE TabReturn(tab_result(r_result))
  /\ ExecReturn
  /\ UNCHANGED <<openViews, leaked, amplified, confirms>>
  /\ UNCHANGED tabFrame

\* direct link: retweet_post has returned, the view is closed, and the result is
\* returned or, for "failed" with turns left, the loop continues
TabDirectReturned ==
  /\ o_pc = "direct_run"
  /\ r_pc = "returned"
  /\ url_page' = FALSE
  /\ openViews' = openViews - 1
  /\ pagePost' = "none"
  /\ IF r_result = "failed" /\ retry_attempt < TabMaxRetries
     THEN /\ retry_attempt' = retry_attempt + 1
          /\ o_pc' = "direct"
          /\ UNCHANGED o_result
     ELSE TabReturn(tab_result(r_result))
  /\ ExecReturn
  /\ UNCHANGED <<leaked, amplified, confirms>>
  /\ UNCHANGED tabFrame

\* direct link: retweet_post has returned and url_page.close raises
TabDirectCloseRaises ==
  /\ o_pc = "direct_run"
  /\ r_pc = "returned"
  /\ TabFault("direct", TRUE, openViews)
  /\ ExecReturn
  /\ UNCHANGED <<amplified, confirms>>
  /\ UNCHANGED tabFrame

\* embedded post: no element to click, or the click does not lead to a status page
TabEmbeddedNoPage ==
  /\ o_pc = "embedded"
  /\ TabRetry("embedded")
  /\ UNCHANGED <<url_page, openViews, leaked, postVars, execVars>>
  /\ UNCHANGED tabFrame

\* embedded post: the element at the index is clicked and leads to its status page,
\* which is opened in a new view; the main page goes back; retweet_post is called
TabEmbeddedOpen ==
  /\ o_pc = "embedded"
  /\ linkElements # <<>>
  /\ url_page' = TRUE
  /\ openViews' = openViews + 1
  /\ pagePost' = targetElement(post_j).post
  /\ RetweetEnter
  /\ o_pc' = "embedded_run"
  /\ UNCHANGED <<retry_attempt, o_result, leaked, amplified, confirms>>
  /\ UNCHANGED tabFrame

\* embedded post: a call of the turn raises, before or after the view is held
TabEmbeddedRaises ==
  /\ o_pc = "embedded"
  /\ \E held \in BOOLEAN :
       /\ held => linkElements # <<>>
       /\ TabFault("embedded", held, IF held THEN openViews + 1 ELSE openViews)
  /\ UNCHANGED <<amplified, confirms, execVars>>
  /\ UNCHANGED tabFrame

\* embedded post: retweet_post has returned, the view is closed, the result returned
TabEmbeddedReturned ==
  /\ o_pc = "embedded_run"
  /\ r_pc = "returned"
  /\ url_page' = FALSE
  /\ openViews' = openViews - 1
  /\ pagePost' = "none"
  /\ TabReturn(tab_result(r_result))
  /\ ExecReturn
  /\ UNCHANGED <<leaked, amplified, confirms>>
  /\ UNCHANGED tabFrame

\* embedded post: retweet_post has returned and url_page.close raises
TabEmbeddedCloseRaises ==
  /\ o_pc = "embedded_run"
  /\ r_pc = "returned"
  /\ TabFault("embedded", TRUE, openViews)
  /\ ExecReturn
  /\ UNCHANGED <<amplified, confirms>>
  /\ UNCHANGED tabFrame

TabNext ==
  \/ TabDirectOpen
  \/ TabDirectOpenRaises
  \/ TabDirectReturned
  \/ TabDirectCloseRaises
  \/ TabEmbeddedNoPage
  \/ TabEmbeddedOpen
  \/ TabEmbeddedRaises
  \/ TabEmbeddedReturned
  \/ TabEmbeddedCloseRaises

(***************************************************************************)
(* process_chat_tweets: one visit of a conversation.                       *)
(***************************************************************************)
\* a retry budget of two: three invocations for one visit
ProcMaxRetries_Two == 1 + 1

ProcMaxRetries == 1

DoneCap == 1

\* if tweets_retweeted > 0
send_gate(retweeted, already) == retweeted > 0

\* the caller has the result of scroll_and_capture_links: its frame is gone
ScrollReturn ==
  /\ s_pc' = "idle"
  /\ captured_links' = <<>>
  /\ done_message_found' = FALSE
  /\ scroll_count' = 0
  /\ previous_scroll_top' = None
  /\ s_result' = <<>>
  /\ scrollsDone' = 0
  /\ lastChange' = 0
  /\ exitFrom' = 0

\* the caller has the result of open_tweet_in_new_tab: its frame is gone
TabDone ==
  /\ o_pc' = "idle"
  /\ retry_attempt' = 0
  /\ url_page' = FALSE
  /\ o_result' = "none"
  /\ UNCHANGED <<openViews, leaked>>

\* the locals of a fresh invocation
ProcLocals ==
  /\ post_elements' = <<>>
  /\ post_j' = 0
  /\ tweets_retweeted' = 0
  /\ tweets_already_retweeted' = 0
  /\ tweets_failed' = 0
  /\ outcomes' = <<>>

\* the call process_chat_tweets(context, page, i) of run_script
ProcEnter(index) ==
  /\ p_pc' = "open"
  /\ p_retry' = 0
  /\ chat_index' = index
  /\ p_result' = 0
  /\ doneCalls' = 0
  /\ visit' = <<>>
  /\ visit_retweeted' = FALSE
  /\ ProcLocals

\* return of process_chat_tweets
ProcReturn(count) ==
  /\ p_result' = count
  /\ p_pc' = "returned"
  /\ UNCHANGED p_retry

\* return await process_chat_tweets(context, page, chat_index, retry_count + 1, max_retries)
ProcRecurse ==
  /\ p_retry' = p_retry + 1
  /\ p_pc' = "open"
  /\ UNCHANGED p_result
  /\ ProcLocals

\* the except branch without its return of 0: the exception goes on to the caller
ProcRetry_Reraise ==
  IF p_retry < ProcMaxRetries
  THEN ProcRecurse
  ELSE /\ p_pc' = "raised"
       /\ UNCHANGED <<p_retry, p_result, post_elements, post_j, tweets_retweeted,
                      tweets_already_retweeted, tweets_failed, outcomes>>

\* the retry of the function, for a failed open and in its except branch
ProcRetry ==
  IF p_retry < ProcMaxRetries
  THEN ProcRecurse
  ELSE /\ ProcReturn(0)
       /\ UNCHANGED <<post_elements, post_j, tweets_retweeted, tweets_already_retweeted,
                      tweets_failed, outcomes>>

\* the tallies start at zero and the loop at the first item
ProcStartLoop(elements) ==
  /\ post_elements' = elements
  /\ post_j' = 0
  /\ tweets_retweeted' = 0
  /\ tweets_already_retweeted' = 0
  /\ tweets_failed' = 0
  /\ outcomes' = <<>>
  /\ p_pc' = "loop"
  /\ UNCHANGED <<p_retry, p_result>>

\* open_chat_by_index returns True; the wait; scroll_and_capture_links is called
ProcOpenChat ==
  /\ p_pc = "open"
  /\ chat_index < Len(chats)
  /\ openChat' = chat_index + 1
  /\ ScrollEnter
  /\ p_pc' = "capture"
  /\ visit' = visit \o <<"open", "capture">>
  /\ UNCHANGED visit_retweeted
  /\ UNCHANGED <<p_retry, chat_index, post_elements, post_j, tweets_retweeted,
                 tweets_already_retweeted, tweets_failed, p_result, outcomes, doneCalls>>
  /\ UNCHANGED <<chats, loadedFrom, scrollTop, maxScroll, tabVars, procFrame>>

\* a failed open that returns 0 at once
ProcOpenFails_NoRetry ==
  /\ p_pc = "open"
  /\ ProcReturn(0)
  /\ visit' = Append(visit, "open_failed")
  /\ UNCHANGED visit_retweeted
  /\ UNCHANGED <<chat_index, post_elements, post_j, tweets_retweeted,
                 tweets_already_retweeted, tweets_failed, outcomes, doneCalls>>
  /\ UNCHANGED <<siteVars, scrollVars, tabVars, procFrame>>

\* open_chat_by_index returns False: the index is out of range, or a call raised
ProcOpenFails ==
  /\ p_pc = "open"
  /\ ProcRetry
  /\ visit' = Append(visit, "open_failed")
  /\ UNCHANGED visit_retweeted
  /\ UNCHANGED <<chat_index, doneCalls>>
  /\ UNCHANGED <<siteVars, scrollVars, tabVars, procFrame>>

\* the first capture found posts
ProcCaptured ==
  /\ p_pc = "capture"
  /\ s_pc = "returned"
  /\ Len(s_result) # 0
  /\ ProcStartLoop(s_result)
  /\ ScrollReturn
  /\ UNCHANGED <<chat_index, doneCalls, visit, visit_retweeted>>
  /\ UNCHANGED <<siteVars, tabVars, procFrame>>

\* the first capture found nothing: page.reload, the wait, the second capture
ProcReload ==
  /\ p_pc = "capture"
  /\ s_pc = "returned"
  /\ Len(s_result) = 0
  /\ ScrollEnter
  /\ p_pc' = "recapture"
  /\ visit' = visit \o <<"reload", "capture">>
  /\ UNCHANGED visit_retweeted
  /\ UNCHANGED <<p_retry, chat_index, post_elements, post_j, tweets_retweeted,
                 tweets_already_retweeted, tweets_failed, p_result, outcomes, doneCalls>>
  /\ UNCHANGED <<siteVars, tabVars, procFrame>>

\* the first capture found nothing and page.reload raises
ProcReloadRaises ==
  /\ p_pc = "capture"
  /\ s_pc = "returned"
  /\ Len(s_result) = 0
  /\ ProcRetry
  /\ visit' = visit \o <<"reload", "fault">>
  /\ UNCHANGED visit_retweeted
  /\ ScrollReturn
  /\ UNCHANGED <<chat_index, doneCalls>>
  /\ UNCHANGED <<siteVars, tabVars, procFrame>>

\* the second capture without the recursive call: the loop over what it found
ProcRecaptured_NoRecursion ==
  /\ p_pc = "recapture"
  /\ s_pc = "returned"
  /\ ProcStartLoop(s_result)
  /\ ScrollReturn
  /\ UNCHANGED <<chat_index, doneCalls, visit, visit_retweeted>>
  /\ UNCHANGED <<siteVars, tabVars, procFrame>>

\* the second capture: still nothing and a retry left, or the loop over what it found
ProcRecaptured ==
  /\ p_pc = "recapture"
  /\ s_pc = "returned"
  /\ IF Len(s_result) = 0 /\ p_retry < ProcMaxRetries
     THEN ProcRecurse
     ELSE ProcStartLoop(s_result)
  /\ ScrollReturn
  /\ UNCHANGED <<chat_index, doneCalls, visit, visit_retweeted>>
  /\ UNCHANGED <<siteVars, tabVars, procFrame>>

\* scroll_and_capture_links raised
ProcCaptureRaised ==
  /\ p_pc \in {"capture", "recapture"}
  /\ s_pc = "raised"
  /\ ProcRetry
  /\ visit' = Append(visit, "fault")
  /\ UNCHANGED visit_retweeted
  /\ ScrollReturn
  /\ UNCHANGED <<chat_index, doneCalls>>
  /\ UNCHANGED <<siteVars, tabVars, procFrame>>

\* for j in range(len(post_elements)): the call of open_tweet_in_new_tab
ProcOpenTweet ==
  /\ p_pc = "loop"
  /\ post_j < Len(post_elements)
  /\ p_pc' = "tweet"
  /\ UNCHANGED <<p_retry, chat_index, post_elements, post_j, tweets_retweeted,
                 tweets_already_retweeted, tweets_failed, p_result, outcomes, doneCalls, visit,
                 visit_retweeted>>
  /\ TabEnter
  /\ UNCHANGED <<siteVars, scrollVars, procFrame>>

\* the loop going on to the next item without waiting for open_tweet_in_new_tab
ProcTweetDone_NotAwaited ==
  /\ p_pc = "tweet"
  /\ tweets_failed' = tweets_failed + 1
  /\ outcomes' = Append(outcomes, "failed")
  /\ post_j' = post_j + 1
  /\ p_pc' = "loop"
  /\ UNCHANGED <<p_retry, chat_index, post_elements, tweets_retweeted,
                 tweets_already_retweeted, p_result, doneCalls, visit, visit_retweeted>>
  /\ UNCHANGED <<siteVars, scrollVars, tabVars, procFrame>>

\* tallies without the else: a result that is not "retweeted" is counted as failed,
\* "already_retweeted" included
ProcTweetDone_NoElif ==
  /\ p_pc = "tweet"
  /\ o_pc = "returned"
  /\ tweets_retweeted' = tweets_retweeted + (IF o_result = "retweeted" THEN 1 ELSE 0)
  /\ tweets_already_retweeted' =
       tweets_already_retweeted + (IF o_result = "already_retweeted" THEN 1 ELSE 0)
  /\ tweets_failed' = tweets_failed + (IF o_result # "retweeted" THEN 1 ELSE 0)
  /\ outcomes' = Append(outcomes, o_result)
  /\ visit_retweeted' = (visit_retweeted \/ o_result = "retweeted")
  /\ post_j' = post_j + 1
  /\ p_pc' = "loop"
  /\ TabDone
  /\ UNCHANGED <<p_retry, chat_index, post_elements, p_result, doneCalls, visit>>
  /\ UNCHANGED <<siteVars, scrollVars, procFrame>>

\* the result of open_tweet_in_new_tab goes into one of the three tallies
ProcTweetDone ==
  /\ p_pc = "tweet"
  /\ o_pc = "returned"
  /\ tweets_retweeted' = tweets_retweeted + (IF o_result = "retweeted" THEN 1 ELSE 0)
  /\ tweets_already_retweeted' =
       tweets_already_retweeted + (IF o_result = "already_retweeted" THEN 1 ELSE 0)
  /\ tweets_failed' =
       tweets_failed + (IF o_result \notin {"retweeted", "already_retweeted"} THEN 1 ELSE 0)
  /\ outcomes' = Append(outcomes, o_result)
  /\ visit_retweeted' = (visit_retweeted \/ o_result = "retweeted")
  /\ post_j' = post_j + 1
  /\ p_pc' = "loop"
  /\ TabDone
  /\ UNCHANGED <<p_retry, chat_index, post_elements, p_result, doneCalls, visit>>
  /\ UNCHANGED <<siteVars, scrollVars, procFrame>>

\* an exception left open_tweet_in_new_tab
ProcTweetRaised ==
  /\ p_pc = "tweet"
  /\ o_pc = "raised"
  /\ ProcRetry
  /\ visit' = Append(visit, "fault")
  /\ UNCHANGED visit_retweeted
  /\ TabDone
  /\ UNCHANGED <<chat_index, doneCalls>>
  /\ UNCHANGED <<siteVars, scrollVars, procFrame>>

\* the conversation after send_done_message has sent its message
WithDoneMessage(hist) ==
  IF Cardinality({k \in DOMAIN hist : hist[k].type = "done_message"}) < DoneCap
  THEN Append(hist, DoneNode(100 + 200 * (Len(hist) + 1)))
  ELSE hist

\* after the loop: the summary, the "Done" message when the gate is open (the message
\* is sent, or send_done_message returns False), and the return of the count
ProcSummary ==
  /\ p_pc = "loop"
  /\ post_j = Len(post_elements)
  /\ IF send_gate(tweets_retweeted, tweets_already_retweeted)
     THEN /\ doneCalls' = doneCalls + 1
          /\ \E sent \in BOOLEAN :
               chats' = IF sent
                        THEN [chats EXCEPT ![openChat] = WithDoneMessage(@)]
                        ELSE chats
     ELSE UNCHANGED <<doneCalls, chats>>
  /\ ProcReturn(tweets_retweeted)
  /\ UNCHANGED <<chat_index, post_elements, post_j, tweets_retweeted,
                 tweets_already_retweeted, tweets_failed, outcomes, visit, visit_retweeted>>
  /\ UNCHANGED <<openChat, loadedFrom, scrollTop, maxScroll, scrollVars, tabVars, procFrame>>

ProcNext ==
  \/ ProcOpenChat
  \/ ProcOpenFails
  \/ ProcCaptured
  \/ ProcReload
  \/ ProcReloadRaises
  \/ ProcRecaptured
  \/ ProcCaptureRaised
  \/ ProcOpenTweet
  \/ ProcTweetDone
  \/ ProcTweetRaised
  \/ ProcSummary

(***************************************************************************)
(* run_script: the main menu, the passes of a session over the             *)
(* conversations, and the menus after the passes, from which the session   *)
(* loop runs the passes again, returns to the main menu, or the run stops. *)
(***************************************************************************)
ITERATIONS_COUNT == 2

\* the caller has the result of process_chat_tweets: its frame is gone
ProcDone ==
  /\ p_pc' = "idle"
  /\ p_retry' = 0
  /\ chat_index' = 0
  /\ p_result' = 0
  /\ doneCalls' = 0
  /\ visit' = <<>>
  /\ visit_retweeted' = FALSE
  /\ ProcLocals

\* find_chat_elements: the conversations of the inbox, or [] when both of its
\* attempts fail (the wait times out or the query raises)
find_chat_elements == {chats, <<>>}

\* a pass starts: the messages page, then find_chat_elements; the count of the
\* pass is set to 0 only when a conversation was found
RunIteration ==
  /\ run_pc = "iteration"
  /\ iteration_num < ITERATIONS_COUNT
  /\ \E initial_chat_elements \in find_chat_elements :
       /\ chat_count' = Len(initial_chat_elements)
       /\ total_tweets_opened' = IF Len(initial_chat_elements) > 0 THEN 0
                                 ELSE total_tweets_opened
  /\ chat_i' = 0
  /\ visited' = <<>>
  /\ prompt' = <<>>
  /\ run_pc' = "chats"
  /\ UNCHANGED <<iteration_num, menuVars>>
  /\ UNCHANGED <<procVars, runFrame>>

\* page.goto of the messages page raises, at the start of the pass or between two
\* conversations: the operator is asked, and with either answer the for loop goes
\* on with the next pass
RunIterationRaises ==
  /\ \/ run_pc = "iteration" /\ iteration_num < ITERATIONS_COUNT
     \/ run_pc = "chats" /\ 0 < chat_i /\ chat_i < chat_count
  /\ \E choice \in {1, 2} :
       /\ prompt' = <<iteration_num, choice>>
       /\ iteration_num' = iteration_num + 1
  /\ run_pc' = "iteration"
  /\ UNCHANGED <<chat_i, chat_count, total_tweets_opened, visited, menuVars>>
  /\ UNCHANGED <<procVars, runFrame>>

\* for i in range(chat_count): the call of process_chat_tweets
RunChat ==
  /\ run_pc = "chats"
  /\ chat_i < chat_count
  /\ ProcEnter(chat_i)
  /\ visited' = Append(visited, chat_i)
  /\ run_pc' = "chat"
  /\ UNCHANGED <<iteration_num, chat_i, chat_count, total_tweets_opened, prompt, menuVars>>
  /\ UNCHANGED runFrame

\* the loop over the conversations with a step of two
RunChatDone_Skip ==
  /\ run_pc = "chat"
  /\ p_pc = "returned"
  /\ total_tweets_opened' = total_tweets_opened + p_result
  /\ chat_i' = chat_i + 2
  /\ run_pc' = "chats"
  /\ ProcDone
  /\ UNCHANGED <<iteration_num, chat_count, visited, prompt, menuVars>>
  /\ UNCHANGED runFrame

\* process_chat_tweets has returned its count
RunChatDone ==
  /\ run_pc = "chat"
  /\ p_pc = "returned"
  /\ total_tweets_opened' = total_tweets_opened + p_result
  /\ chat_i' = chat_i + 1
  /\ run_pc' = "chats"
  /\ ProcDone
  /\ UNCHANGED <<iteration_num, chat_count, visited, prompt, menuVars>>
  /\ UNCHANGED runFrame

\* the pass is over
RunIterationEnd ==
  /\ run_pc = "chats"
  /\ chat_i = chat_count
  /\ iteration_num' = iteration_num + 1
  /\ run_pc' = "iteration"
  /\ UNCHANGED <<chat_i, chat_count, total_tweets_opened, visited, prompt, menuVars>>
  /\ UNCHANGED <<procVars, runFrame>>

\* all passes of the session are over
RunSessionEnd ==
  /\ run_pc = "iteration"
  /\ iteration_num = ITERATIONS_COUNT
  /\ run_pc' = "session_done"
  /\ UNCHANGED <<iteration_num, chat_i, chat_count, total_tweets_opened, visited, prompt,
                 menuVars>>
  /\ UNCHANGED <<procVars, runFrame>>

\* the operator's answers to "Enter time interval in hours (1-5)" that end the
\* question: a number below 1 or above 5 is asked for again
HourAnswers == 1..5

\* the for loop of the passes starts over, with the histories of a new session
RunPassesAgain ==
  /\ iteration_num' = 0
  /\ visited' = <<>>
  /\ prompt' = <<>>
  /\ run_pc' = "iteration"

\* the main menu: the operator chooses the mode and, for mode 2, the interval; the
\* session loop is entered
RunMenu ==
  /\ run_pc = "menu"
  /\ \E choice \in {1, 2} :
       /\ initial_choice' = choice
       /\ IF choice = 2 THEN hours' \in HourAnswers ELSE hours' = 0
  /\ running_session' = TRUE
  /\ RunPassesAgain
  /\ UNCHANGED <<chat_i, chat_count, total_tweets_opened>>
  /\ UNCHANGED <<procVars, runFrame>>

\* mode 2: await asyncio.sleep(hours * 3600) returns and the session loop continues
RunWaitOver ==
  /\ run_pc = "session_done"
  /\ initial_choice = 2
  /\ RunPassesAgain
  /\ UNCHANGED <<chat_i, chat_count, total_tweets_opened, menuVars>>
  /\ UNCHANGED <<procVars, runFrame>>

\* the menu after "Session completed!": 1 leaves the session loop for the main
\* menu, 2 returns from run_script
RunCompletedMenu ==
  /\ \E choice \in {1, 2} :
       IF choice = 1
       THEN running_session' = FALSE /\ run_pc' = "menu"
       ELSE running_session' = running_session /\ run_pc' = "stopped"
  /\ UNCHANGED <<iteration_num, chat_i, chat_count, total_tweets_opened, visited, prompt,
                 initial_choice, hours>>
  /\ UNCHANGED <<procVars, runFrame>>

\* mode 2: KeyboardInterrupt is raised inside the try of the wait and the operator
\* answers the menu of the except branch: 1 resumes, 2 clears running_session and
\* falls through to the menu after "Session completed!", 3 returns
RunWaitInterrupted ==
  /\ run_pc = "session_done"
  /\ initial_choice = 2
  /\ \E sub_choice \in {1, 2, 3} :
       CASE sub_choice = 1 ->
              /\ RunPassesAgain
              /\ UNCHANGED <<chat_i, chat_count, total_tweets_opened, menuVars>>
              /\ UNCHANGED <<procVars, runFrame>>
         [] sub_choice = 2 ->
              /\ \E choice \in {1, 2} : run_pc' = IF choice = 1 THEN "menu" ELSE "stopped"
              /\ running_session' = FALSE
              /\ UNCHANGED <<iteration_num, chat_i, chat_count, total_tweets_opened, visited,
                             prompt, initial_choice, hours>>
              /\ UNCHANGED <<procVars, runFrame>>
         [] sub_choice = 3 ->
              /\ run_pc' = "stopped"
              /\ UNCHANGED <<iteration_num, chat_i, chat_count, total_tweets_opened, visited,
                             prompt, menuVars>>
              /\ UNCHANGED <<procVars, runFrame>>

\* mode 1: the passes are over, the menu after "Session completed!"
RunSessionMenu ==
  /\ run_pc = "session_done"
  /\ initial_choice = 1
  /\ RunCompletedMenu

RunNext ==
  \/ RunMenu
  \/ RunIteration
  \/ RunIterationRaises
  \/ RunChat
  \/ RunChatDone
  \/ RunIterationEnd
  \/ RunSessionEnd
  \/ RunWaitOver
  \/ RunWaitInterrupted
  \/ RunSessionMenu

(***************************************************************************)
(* Spec: run_script from its main menu on, session after session, over     *)
(* short conversations that are loaded completely and do not scroll, so    *)
(* that each capture ends at its second step; the operator's answers and   *)
(* the driver's answers and faults are free.                               *)
(***************************************************************************)
Inboxes ==
  {<<HistoryOf(<<"abc100", "embedded">>)>>,
   <<HistoryOf(<<>>), HistoryOf(<<"done", "embedded">>)>>}

Init ==
  /\ chats \in Inboxes
  /\ openChat = 0
  /\ loadedFrom = 1
  /\ scrollTop = 0
  /\ maxScroll = 0
  /\ run_pc = "menu"
  /\ iteration_num = 0
  /\ chat_i = 0
  /\ chat_count = 0
  /\ total_tweets_opened = 0
  /\ initial_choice = 0
  /\ hours = 0
  /\ running_session = FALSE
  /\ visited = <<>>
  /\ prompt = <<>>
  /\ DedupIdle
  /\ ScrollIdle
  /\ PostsIdle
  /\ ExecIdle
  /\ TabIdle
  /\ ProcIdle
  /\ StartIdle
  /\ UndoIdle

Next ==
  \/ RunNext
  \/ ProcNext
  \/ TabNext
  \/ RetweetNext
  \/ ScrollTopReached
  \/ ScrollStep
  \/ ScrollDoneFound
  \/ ScrollAgain
  \/ FinalEmbedded
  \/ ScrollFinal
  \/ ScrollRaise

Spec == Init /\ [][Next]_vars

(***************************************************************************)
(* SpecVisit: one call process_chat_tweets(context, page, 0) by itself, on *)
(* a conversation with repeated embedded posts, with links and embedded    *)
(* posts, with a "Done" message, or with nothing; the driver's answers and *)
(* faults are free.                                                        *)
(***************************************************************************)
VisitConversations ==
  {HistoryOf(<<"embedded", "embedded", "embedded200">>),
   HistoryOf(<<"abc100", "embedded200">>),
   HistoryOf(<<"embedded200", "abc100abs", "embedded">>),
   HistoryOf(<<"done", "embedded">>),
   HistoryOf(<<>>)}

VisitInit ==
  /\ \E c \in VisitConversations : chats = <<c>>
  /\ openChat = 0
  /\ loadedFrom = 1
  /\ scrollTop = 0
  /\ maxScroll = 0
  /\ p_pc = "open"
  /\ p_retry = 0
  /\ chat_index = 0
  /\ post_elements = <<>>
  /\ post_j = 0
  /\ tweets_retweeted = 0
  /\ tweets_already_retweeted = 0
  /\ tweets_failed = 0
  /\ p_result = 0
  /\ outcomes = <<>>
  /\ doneCalls = 0
  /\ visit = <<>>
  /\ visit_retweeted = FALSE
  /\ DedupIdle
  /\ ScrollIdle
  /\ PostsIdle
  /\ ExecIdle
  /\ TabIdle
  /\ RunIdle
  /\ StartIdle
  /\ UndoIdle

VisitNext ==
  \/ ProcNext
  \/ TabNext
  \/ RetweetNext
  \/ ScrollTopReached
  \/ ScrollStep
  \/ ScrollDoneFound
  \/ ScrollAgain
  \/ FinalEmbedded
  \/ ScrollFinal
  \/ ScrollRaise

SpecVisit == VisitInit /\ [][VisitNext]_vars

(***************************************************************************)
(* Properties of the session                                               *)
(***************************************************************************)
\* C2: over the candidates, retries, conversations and passes of a session, the
\* confirming click is made at most once on any post.
C2_ConfirmAtMostOnce == \A p \in Posts : confirms[p] <= 1

\* every item of the list had its result
AllProcessed == Len(outcomes) = Len(post_elements)

\* the invocation has returned after its summary, not from a failed open or from
\* its except branch
SummaryReturned == p_pc = "returned" /\ visit # <<>> /\ visit[Len(visit)] = "capture"

\* C3: in a visit of a conversation, send_done_message is called only after every
\* candidate has had its result, at most once, and then exactly when the result of
\* one of the visit's candidates was "retweeted".
C3_WatermarkInVisit ==
  /\ doneCalls > 0 => (SummaryReturned /\ AllProcessed)
  /\ (SummaryReturned /\ AllProcessed) =>
       /\ doneCalls <= 1
       /\ doneCalls = 1 <=> visit_retweeted

\* the positions of process_chat_tweets: none of them is an exception on its way
\* to run_script
ProcPositions == {"idle", "open", "capture", "recapture", "loop", "tweet", "returned"}

\* C11: a fault raised while a conversation is opened, captured, or one of its
\* candidates is opened or acted on, does not end the run: no exception leaves
\* process_chat_tweets: an exception that left scroll_and_capture_links or
\* open_tweet_in_new_tab is taken up by its except branch, and it returns a count
\* (0 when it gives up after its retry); the session loop then has its next step,
\* and the session ends, and the run stops, only after its last pass.
C11_NoFaultEndsRun ==
  /\ p_pc \in ProcPositions
  /\ s_pc = "raised" => p_pc \in {"capture", "recapture"}
  /\ o_pc = "raised" => p_pc = "tweet"
  /\ p_pc = "returned" => p_result = (IF AllProcessed THEN tweets_retweeted ELSE 0)
  /\ (s_pc = "raised" \/ o_pc = "raised") => ENABLED ProcNext
  /\ (run_pc = "chat" /\ p_pc = "returned") => ENABLED RunChatDone
  /\ run_pc \in {"session_done", "stopped"} => iteration_num = ITERATIONS_COUNT

\* a visit of the second conversation is given up after an exception left
\* open_tweet_in_new_tab in the retry: it has returned 0 to the session loop
C11_Witness ==
  /\ run_pc = "chat"
  /\ chat_i = 1
  /\ p_pc = "returned"
  /\ p_retry = ProcMaxRetries
  /\ ~AllProcessed
  /\ p_result = 0

\* range(n)
Indexes(n) == [k \in 1..n |-> k - 1]

\* C15 as stated: every pass that found its conversations ends only after
\* process_chat_tweets was called for each index 0..chat_count-1, in increasing
\* order.
C15_EveryPassComplete ==
  [][(run_pc = "chats" /\ iteration_num' = iteration_num + 1) =>
       visited = Indexes(chat_count)]_vars

\* C15, amended: in a session the for loop makes ITERATIONS_COUNT turns; within a
\* pass process_chat_tweets is called for the indexes 0, 1, 2, ... in increasing
\* order without a gap, and a pass that ends without a fault of the session loop
\* has called it for every index 0..chat_count-1.  (A fault of the session loop
\* ends the pass where it is.)
C15_SessionCoverage ==
  /\ [](/\ iteration_num <= ITERATIONS_COUNT
        /\ run_pc = "session_done" => iteration_num = ITERATIONS_COUNT
        /\ run_pc = "chats" => (visited = Indexes(chat_i) /\ chat_i <= chat_count)
        /\ run_pc = "chat" =>
             (visited = Indexes(chat_i + 1) /\ chat_index = chat_i /\ chat_i < chat_count))
  /\ [][RunIterationEnd => visited = Indexes(chat_count)]_vars

\* the session is over and its last pass has visited both conversations
C15_Witness ==
  /\ run_pc = "session_done"
  /\ chat_count = 2
  /\ visited = <<0, 1>>

\* the number of events ev in a history
Count(log, ev) == Cardinality({k \in DOMAIN log : log[k] = ev})

\* the calls of open_chat_by_index in a history
Opens(log) == Count(log, "open") + Count(log, "open_failed")

\* the history after the first failed open
AfterFirstFailure(log) ==
  SubSeq(log, 1 + (CHOOSE k \in DOMAIN log :
                     log[k] = "open_failed" /\ \A m \in 1..(k - 1) : log[m] # "open_failed"),
         Len(log))

\* the history of the running invocation: from its call of open_chat_by_index on
ThisInvocation(log) ==
  LET starts == {k \in DOMAIN log : log[k] \in {"open", "open_failed"}}
  IN IF starts = {} THEN <<>>
     ELSE SubSeq(log, CHOOSE k \in starts : \A m \in starts : m <= k, Len(log))

\* C16 as stated: a visit in which an open failed has made exactly one more call of
\* open_chat_by_index after the first failure; and when two opens failed it
\* returns 0 with no capture, no candidate processed and no call of
\* send_done_message.
C16_OpenRetriedOnce ==
  (p_pc = "returned" /\ Count(visit, "open_failed") > 0) =>
    /\ Opens(AfterFirstFailure(visit)) = 1
    /\ Count(visit, "open_failed") = 2 =>
         (p_result = 0 /\ Count(visit, "capture") = 0 /\ outcomes = <<>> /\ doneCalls = 0)

\* C16, amended: a visit has one retry, which a failed open shares with an empty
\* capture and with a fault.  A failed open of the first invocation is followed by
\* exactly one more open; a failed open of the retry is not.  An invocation whose
\* open failed, with no retry left, returns 0 without a capture, a candidate or a
\* call of send_done_message; a visit never opens more than twice.
C16_OpenRetryBudget ==
  /\ Opens(visit) <= 2
  /\ (p_pc = "returned" /\ Count(visit, "open_failed") > 0) =>
       /\ Opens(AfterFirstFailure(visit)) = (IF visit[1] = "open_failed" THEN 1 ELSE 0)
       /\ visit[Len(visit)] = "open_failed" =>
            (p_result = 0 /\ post_elements = <<>> /\ outcomes = <<>> /\ doneCalls = 0)
       /\ Count(visit, "open_failed") = 2 => Len(visit) = 2

\* both opens of a visit failed and it has returned 0
C16_Witness ==
  /\ p_pc = "returned"
  /\ visit = <<"open_failed", "open_failed">>
  /\ p_result = 0

\* C17: the candidates of a conversation are processed one at a time in the order
\* of the list: open_tweet_in_new_tab runs only for the item at the loop index, and
\* then each earlier item has its result and no later item has one; retweet_post
\* runs, and a view is held, only inside the turn of open_tweet_in_new_tab that
\* opened the view; outside the call nothing of it is left.
C17_Sequential ==
  /\ o_pc # "idle" => (p_pc = "tweet" /\ run_pc = "chat")
  /\ r_pc # "idle" => o_pc \in {"direct_run", "embedded_run"}
  /\ (url_page \/ pagePost # "none") => o_pc \in {"direct_run", "embedded_run"}
  /\ p_pc \in {"loop", "tweet"} => (Len(outcomes) = post_j /\ post_j <= Len(post_elements))
  /\ p_pc = "tweet" => post_j < Len(post_elements)
  /\ p_pc = "tweet" =>
       o_pc \in (IF post_item.type = "direct_link"
                 THEN {"direct", "direct_run", "returned", "raised"}
                 ELSE {"embedded", "embedded_run", "returned", "raised"})

\* the second candidate is in a retry of its open and in a retry of retweet_post,
\* and the first has its result
C17_Witness ==
  /\ p_pc = "tweet"
  /\ post_j = 1
  /\ Len(outcomes) = 1
  /\ retry_attempt > 0
  /\ r_pc = "check"
  /\ retry_count > 0

\* C18 as stated: at most one isolated view is open at any time, and none is open
\* when open_tweet_in_new_tab is not running or has ended, by a return or by an
\* exception.
C18_AtMostOneView ==
  /\ openViews <= 1
  /\ o_pc \in {"idle", "returned", "raised"} => openViews = 0

\* C18, amended: a view is open only between its new_page and the url_page.close
\* that follows retweet_post or the fault, so open_tweet_in_new_tab holds at most
\* one view and none when it returns a result; the only views beside it are those
\* of earlier calls in which url_page.close raised in the except branch of the
\* loop and again in the outer except branch, which lets the exception leave the
\* function with the view open.
C18_ViewLifecycle ==
  /\ openViews = leaked + (IF o_pc \in {"direct_run", "embedded_run"} THEN 1 ELSE 0)
  /\ url_page <=> o_pc \in {"direct_run", "embedded_run"}
  /\ leaked = 0 => openViews <= 1
  /\ (o_pc = "returned" /\ leaked = 0) => openViews = 0

\* a call has returned "failed" through the outer except branch, after the close
\* of the loop's except branch raised, and no view is open
C18_Witness ==
  /\ o_pc = "returned"
  /\ o_result = "failed"
  /\ retry_attempt < TabMaxRetries
  /\ post_item.type = "direct_link"
  /\ openViews = 0

\* C20: when the view of an Embedded item is open, the element that was clicked is
\* the node the item was captured from, and the view shows that node's post.
C20_MatchingElement ==
  o_pc = "embedded_run" =>
    /\ targetElement(post_j) = NodeOf(post_item)
    /\ pagePost = NodeOf(post_item).post

\* no call of the visit failed or raised
NoFault(log) == Count(log, "open_failed") = 0 /\ Count(log, "fault") = 0

\* the conversation of the visit has no node at all
EmptyConversation == chats[chat_index + 1] = <<>>

\* C19 as stated: a visit of a conversation that always yields zero candidates has
\* made exactly one reload and at most two capture runs when it returns.
C19_OneReloadPerVisit ==
  (p_pc = "returned" /\ EmptyConversation /\ NoFault(visit)) =>
    (Count(visit, "reload") = 1 /\ Count(visit, "capture") <= 2)

\* C19, amended: an invocation whose first capture is empty reloads once and
\* captures once more, so it makes at most one reload and two capture runs; when
\* the second capture is empty too and the retry is left, the function calls
\* itself, so a visit makes at most two reloads and four capture runs, and exactly
\* these for a conversation that always yields zero candidates.
C19_EmptyCaptureRetry ==
  /\ Count(ThisInvocation(visit), "reload") <= 1
  /\ Count(ThisInvocation(visit), "capture") <= 2
  /\ Count(visit, "reload") <= 2
  /\ Count(visit, "capture") <= 4
  /\ p_pc = "recapture" =>
       ThisInvocation(visit) = <<"open", "capture", "reload", "capture">>
  /\ (p_pc = "returned" /\ EmptyConversation /\ NoFault(visit)) =>
       visit = <<"open", "capture", "reload", "capture", "open", "capture", "reload", "capture">>

\* a visit of an empty conversation has returned after its retry
C19_Witness ==
  /\ p_pc = "returned"
  /\ EmptyConversation
  /\ NoFault(visit)
  /\ Count(visit, "reload") = 2
  /\ Count(visit, "capture") = 4

\* C30: when a pass has raised and the operator has been asked, the answer 1 has
\* the for loop run the pass of the same number again, and the answer 2 has it go
\* on with the next pass.
C30_OperatorRetry ==
  (run_pc = "iteration" /\ prompt # <<>>) =>
    iteration_num = (IF prompt[2] = 1 THEN prompt[1] ELSE prompt[1] + 1)

\* the three tallies of the invocation together
Tallied == tweets_retweeted + tweets_already_retweeted + tweets_failed

\* C32 as stated: whenever a visit has ended, the three tallies add up to the number
\* of candidates of the deduplicated capture list.
C32_TallyAtEveryEnd ==
  p_pc = "returned" => Tallied = Len(post_elements)

\* C32: in the loop over the candidates every result of open_tweet_in_new_tab has
\* gone into exactly one tally ("retweeted", "already_retweeted", and failed for
\* any other result), so the tallies add up to the candidates handled; at the
\* summary, and when the invocation has returned after it, they add up to the
\* number of candidates of the deduplicated capture list.
C32_TallyComplete ==
  /\ tweets_retweeted = Count(outcomes, "retweeted")
  /\ tweets_already_retweeted = Count(outcomes, "already_retweeted")
  /\ tweets_failed = Len(outcomes) - tweets_retweeted - tweets_already_retweeted
  /\ p_pc \in {"loop", "tweet"} => (Tallied = post_j /\ post_j <= Len(post_elements))
  /\ SummaryReturned => Tallied = Len(post_elements)

\* a visit of two candidates has returned after its summary: one was reposted, the
\* other failed
C32_Witness ==
  /\ SummaryReturned
  /\ Len(post_elements) = 2
  /\ tweets_retweeted = 1
  /\ tweets_already_retweeted = 0
  /\ tweets_failed = 1

\* C35: for one top-level invocation of process_chat_tweets, its recursive retries
\* (failed open, empty capture, fault) included, send_done_message is invoked at
\* most once, and only by the invocation that then returns; the function runs at
\* most twice: each run starts with one call of open_chat_by_index and the retry
\* count never passes 1.
C35_OneWatermark ==
  /\ doneCalls <= 1
  /\ doneCalls = 1 => p_pc = "returned"
  /\ p_retry <= 1
  /\ Opens(visit) <= p_retry + 1
  /\ Opens(visit) <= 2

\* the visit ran twice because of a fault, and its second run sent the message
C35_Witness ==
  /\ p_pc = "returned"
  /\ p_retry = 1
  /\ Count(visit, "fault") = 1
  /\ doneCalls = 1

\* open_tweet_in_new_tab is running, or has just ended, on a direct link
DirectCall == p_pc = "tweet" /\ post_item.type = "direct_link"

\* C36 as stated: for a direct link open_tweet_in_new_tab returns a result on every
\* path, the fault included.
C36_DirectAlwaysReturns == DirectCall => o_pc # "raised"

\* C36: for a direct link open_tweet_in_new_tab stays in the direct loop until it
\* ends: it never enters the loop of the embedded posts, its turn number never
\* passes max_retries = 3, and it ends with one of the three results or, when
\* closing the view raised in both except branches, with that exception.  A view is
\* opened only at the start of a turn, one per turn, and a turn that has opened a
\* view is followed by the end of the call or by the next turn: at most 4 views
\* are opened.
C36_DirectClosed ==
  /\ [](DirectCall =>
          /\ o_pc \in {"direct", "direct_run", "returned", "raised"}
          /\ retry_attempt <= TabMaxRetries
          /\ o_pc = "returned" => o_result \in {"retweeted", "already_retweeted", "failed"})
  /\ [][(DirectCall /\ openViews' > openViews) =>
          /\ o_pc = "direct"
          /\ o_pc' \in {"direct_run", "direct", "returned", "raised"}
          /\ openViews' = openViews + 1]_vars
  /\ [][(DirectCall /\ o_pc = "direct_run") =>
          \/ o_pc' = "direct_run"
          \/ o_pc' = "direct" /\ retry_attempt' = retry_attempt + 1
          \/ o_pc' \in {"returned", "raised"} /\ retry_attempt' = retry_attempt]_vars

\* a direct link is in its fourth and last turn: the view of the turn is open and
\* retweet_post has returned "failed" on it
C36_Witness ==
  /\ DirectCall
  /\ o_pc = "direct_run"
  /\ retry_attempt = TabMaxRetries
  /\ url_page
  /\ r_pc = "returned"
  /\ r_result = "failed"

\* C33: open_tweet_in_new_tab returns "retweeted" only for a call of retweet_post
\* on the view opened for the candidate that clicked the repost button and then the
\* confirming option and returned True, and "already_retweeted" only for a call
\* whose idempotence check found the undo affordance and that made no click; a
\* tally of the visit goes up by one, and only for a returned result of its kind.
C33_NeverOverReported ==
  /\ [][(o_pc # "returned" /\ o_pc' = "returned" /\ o_result' = "retweeted") =>
          /\ url_page
          /\ r_pc = "returned"
          /\ r_result = "True"
          /\ r_clicks >= 1
          /\ r_confirms = 1
          /\ amplified[pagePost]]_vars
  /\ [][(o_pc # "returned" /\ o_pc' = "returned" /\ o_result' = "already_retweeted") =>
          /\ url_page
          /\ r_pc = "returned"
          /\ r_cause = "already"
          /\ undo_affordance_present
          /\ r_confirms = 0]_vars
  /\ [][tweets_retweeted' > tweets_retweeted =>
          /\ o_pc = "returned"
          /\ o_result = "retweeted"
          /\ tweets_retweeted' = tweets_retweeted + 1]_vars
  /\ [][tweets_already_retweeted' > tweets_already_retweeted =>
          /\ o_pc = "returned"
          /\ o_result = "already_retweeted"
          /\ tweets_already_retweeted' = tweets_already_retweeted + 1]_vars

\* a visit has tallied one candidate as reposted and another as already reposted
C33_Witness ==
  /\ p_pc = "loop"
  /\ tweets_retweeted = 1
  /\ tweets_already_retweeted = 1
  /\ tweets_failed = 0

(***************************************************************************)
(* The start of the program: load_config and the three settings at import, *)
(* then, in run_script, the browser, the cookies and the main page.        *)
(*                                                                         *)
(* A file is given by what open and read do with it: kind "missing" (open  *)
(* raises FileNotFoundError), "denied" (open raises another OSError),      *)
(* "undecodable" (the bytes are not UTF-8, reading raises                  *)
(* UnicodeDecodeError), and, for config.json, "not_json" (json.load raises *)
(* JSONDecodeError) or "json" with the value json.load returns, for        *)
(* cookies.txt "text" with its lines.                                      *)
(***************************************************************************)
DoneText == <<"D", "o", "n", "e">>

JsonObject(text, scrolls, iterations) ==
  [type |-> "object",
   members |-> [done_message_text |-> text, scrolls_count_for_each_capture |-> scrolls,
                iterations_count |-> iterations]]

\* the dict of the two except branches of load_config
FallbackConfig == JsonObject(<<DoneText>>, <<2>>, <<2>>)

\* load_config(): the value it returns, or that an exception leaves it; only
\* FileNotFoundError and json.JSONDecodeError are caught
load_config(file) ==
  CASE file.kind = "missing" -> [raised |-> FALSE, value |-> FallbackConfig]
    [] file.kind = "not_json" -> [raised |-> FALSE, value |-> FallbackConfig]
    [] file.kind = "json" -> [raised |-> FALSE, value |-> file.value]
    [] OTHER -> [raised |-> TRUE, value |-> JsonNull]

\* CONFIG.get(key, default) of a dict
config_get(config, key, default) ==
  IF config.members[key] = <<>> THEN default ELSE config.members[key][1]

\* the check mark of the flag columns of cookies.txt
Tick == "U+2713"

SameSiteValues == {<<"N", "o", "n", "e">>, <<"L", "a", "x">>, <<"S", "t", "r", "i", "c", "t">>}

\* the lines the loop passes over: empty, a comment, or fewer than three parts
skipped(line) ==
  \/ strip(line) = <<>>
  \/ StartsWith(strip(line), <<"/", "/">>)
  \/ Len(split(strip(line), "\t")) < 3

\* the cookie of a line; a key the code does not set is <<>>, or FALSE for a flag
cookie_of(line) ==
  LET parts == split(strip(line), "\t")
  IN [name |-> parts[1],
      value |-> parts[2],
      domain |-> parts[3],
      path |-> IF Len(parts) > 3 THEN <<parts[4]>> ELSE <<>>,
      secure |-> Len(parts) > 5 /\ \E k \in DOMAIN parts[6] : parts[6][k] = Tick,
      httpOnly |-> Len(parts) > 6 /\ \E k \in DOMAIN parts[7] : parts[7][k] = Tick,
      sameSite |-> IF Len(parts) > 7 /\ parts[8] \in SameSiteValues THEN <<parts[8]>> ELSE <<>>]

\* parse_cookies_from_file: every exception of open and readlines is caught, and the
\* list, still empty then, is returned
parse_cookies_from_file(file) ==
  IF file.kind # "text"
  THEN <<>>
  ELSE LET kept == SelectSeq(file.lines, LAMBDA line : ~skipped(line))
       IN [k \in 1..Len(kept) |-> cookie_of(kept[k])]

\* CONFIG = load_config()
StartLoadConfig ==
  /\ start_pc = "import"
  /\ ~load_config(config_file).raised
  /\ CONFIG' = load_config(config_file).value
  /\ start_pc' = "settings"
  /\ UNCHANGED <<config_file, cookies_file, settings, cookies, jar>>
  /\ UNCHANGED startFrame

\* an exception leaves load_config: the import ends with a traceback
StartLoadConfigRaises ==
  /\ start_pc = "import"
  /\ load_config(config_file).raised
  /\ start_pc' = "aborted"
  /\ UNCHANGED <<config_file, cookies_file, CONFIG, settings, cookies, jar>>
  /\ UNCHANGED startFrame

\* DONE_MESSAGE_TEXT, SCROLLS_COUNT_FOR_EACH_CAPTURE, ITERATIONS_COUNT = CONFIG.get(...)
StartSettings ==
  /\ start_pc = "settings"
  /\ CONFIG.type = "object"
  /\ settings' =
       [done_message_text |-> config_get(CONFIG, "done_message_text", DoneText),
        scrolls_count_for_each_capture |-> config_get(CONFIG, "scrolls_count_for_each_capture", 2),
        iterations_count |-> config_get(CONFIG, "iterations_count", 3)]
  /\ start_pc' = "launch"
  /\ UNCHANGED <<config_file, cookies_file, CONFIG, cookies, jar>>
  /\ UNCHANGED startFrame

\* CONFIG is not a dict and has no get: AttributeError at import
StartSettingsRaises ==
  /\ start_pc = "settings"
  /\ CONFIG.type # "object"
  /\ start_pc' = "aborted"
  /\ UNCHANGED <<config_file, cookies_file, CONFIG, settings, cookies, jar>>
  /\ UNCHANGED startFrame

\* run_script: the browser, the context and the first page
StartLaunch ==
  /\ start_pc = "launch"
  /\ start_pc' = "cookies"
  /\ UNCHANGED <<config_file, cookies_file, CONFIG, settings, cookies, jar>>
  /\ UNCHANGED startFrame

\* a call of the driver outside the inner try blocks raises: "Critical error"
StartCritical ==
  /\ start_pc \in {"launch", "page"}
  /\ start_pc' = "critical"
  /\ UNCHANGED <<config_file, cookies_file, CONFIG, settings, cookies, jar>>
  /\ UNCHANGED startFrame

\* cookies = parse_cookies_from_file(cookies_file_path)
StartParseCookies ==
  /\ start_pc = "cookies"
  /\ cookies' = parse_cookies_from_file(cookies_file)
  /\ start_pc' = "add_cookies"
  /\ UNCHANGED <<config_file, cookies_file, CONFIG, settings, jar>>
  /\ UNCHANGED startFrame

\* await context.add_cookies(cookies)
StartAddCookies ==
  /\ start_pc = "add_cookies"
  /\ jar' = cookies
  /\ start_pc' = "page"
  /\ UNCHANGED <<config_file, cookies_file, CONFIG, settings, cookies>>
  /\ UNCHANGED startFrame

\* add_cookies raises: "Error loading cookies", return
StartAddCookiesRaises ==
  /\ start_pc = "add_cookies"
  /\ start_pc' = "returned"
  /\ UNCHANGED <<config_file, cookies_file, CONFIG, settings, cookies, jar>>
  /\ UNCHANGED startFrame

\* page = await context.new_page(), and the first menu of the session loop
StartMainPage ==
  /\ start_pc = "page"
  /\ start_pc' = "menu"
  /\ UNCHANGED <<config_file, cookies_file, CONFIG, settings, cookies, jar>>
  /\ UNCHANGED startFrame

StartNext ==
  \/ StartLoadConfig
  \/ StartLoadConfigRaises
  \/ StartSettings
  \/ StartSettingsRaises
  \/ StartLaunch
  \/ StartCritical
  \/ StartParseCookies
  \/ StartAddCookies
  \/ StartAddCookiesRaises
  \/ StartMainPage

(***************************************************************************)
(* SpecStart: the start of the program over configuration files and cookie *)
(* files of every kind.                                                    *)
(***************************************************************************)
MaxCookieLines == 2

TextOk == <<"o", "k">>

ConfigFiles ==
  {[kind |-> k, value |-> JsonNull] : k \in {"missing", "denied", "undecodable", "not_json"}}
    \cup {[kind |-> "json", value |-> [type |-> t, members |-> NoMembers]] :
            t \in {"array", "null"}}
    \cup {[kind |-> "json", value |-> JsonObject(text, scrolls, iterations)] :
            text \in {<<>>, <<TextOk>>}, scrolls \in {<<>>, <<4>>}, iterations \in {<<>>, <<5>>}}

\* the parts of a line joined by tabs
RECURSIVE TabLine(_)
TabLine(parts) ==
  IF Len(parts) = 1 THEN parts[1] ELSE parts[1] \o <<"\t">> \o TabLine(Tail(parts))

CookieLines ==
  {<<" ", " ">>,
   <<"/", "/", " ", "c">>,
   TabLine(<<<<"n">>, <<"v">>>>),
   <<" ">> \o TabLine(<<<<"n">>, <<"v">>, <<"d">>>>) \o <<"\n">>,
   TabLine(<<<<"n">>, <<"v">>, <<"d">>, <<"/">>, <<"e">>, <<Tick>>>>),
   TabLine(<<<<"n">>, <<"v">>, <<"d">>, <<"/">>, <<"e">>, <<>>, <<Tick>>, <<"L", "a", "x">>>>),
   TabLine(<<<<"n">>, <<"v">>, <<"d">>, <<"/">>, <<"e">>, <<Tick>>, <<Tick>>, <<"l", "a", "x">>>>)}

CookieFiles ==
  {[kind |-> k, lines |-> <<>>] : k \in {"missing", "denied", "undecodable"}}
    \cup {[kind |-> "text", lines |-> ls] : ls \in SeqsUpTo(CookieLines, MaxCookieLines)}

StartInit ==
  /\ config_file \in ConfigFiles
  /\ cookies_file \in CookieFiles
  /\ start_pc = "import"
  /\ CONFIG = JsonNull
  /\ settings = NoSettings
  /\ cookies = <<>>
  /\ jar = <<>>
  /\ DedupIdle
  /\ SiteIdle
  /\ ScrollIdle
  /\ PostsIdle
  /\ ExecIdle
  /\ OrchIdle
  /\ UndoIdle

SpecStart == StartInit /\ [][StartNext]_vars

(***************************************************************************)
(* Properties of the start                                                 *)
(***************************************************************************)
\* open or read of the file raises
Unreadable(file) == file.kind \in {"missing", "denied", "undecodable"}

\* C13: when cookies.txt cannot be read, run_script ends before its main page and
\* its session loop: it never is there with the empty cookie list of an unreadable
\* file.
C13_CredentialFailureAborts ==
  Unreadable(cookies_file) => start_pc \notin {"page", "menu"}

\* the content of config.json is not a configuration: bytes that are not text, text
\* that is not JSON, or JSON that is not an object
Malformed(file) ==
  \/ file.kind \in {"undecodable", "not_json"}
  \/ file.kind = "json" /\ file.value.type # "object"

DefaultSettings(iterations) ==
  [done_message_text |-> DoneText, scrolls_count_for_each_capture |-> 2,
   iterations_count |-> iterations]

\* C14: with config.json missing or malformed the import does not end with an
\* exception, and the settings are the defaults: "Done", 2 scrolls for each capture,
\* and the default number of iterations (2 in the fallback dict, 3 in the get).
C14_ConfigFallback ==
  (config_file.kind = "missing" \/ Malformed(config_file)) =>
    /\ start_pc # "aborted"
    /\ start_pc \notin {"import", "settings"} =>
         settings \in {DefaultSettings(2), DefaultSettings(3)}

(***************************************************************************)
(* undo_retweets (src/undo_retweet.py): the reposts of a profile page are  *)
(* undone, round after round, one task for each undo button of a round.    *)
(* The page has one menu: the click on an undo button opens the menu of    *)
(* its post in place of the menu that was open, and the confirmation       *)
(* 'div[data-testid="unretweetConfirm"]' is the item of the open menu.     *)
(***************************************************************************)
UndoPosts == 2

\* the posts of the profile page, in document order
UPosts == 1..UndoPosts

\* the function has ended: after its loop, or in its except branch
UndoEnded == u_pc \in {"finished", "error"}

\* the elements of a set of posts in document order
InDocumentOrder(S) ==
  CHOOSE seq \in [1..Cardinality(S) -> S] :
    \A i, j \in 1..Cardinality(S) : i < j => seq[i] < seq[j]

\* the sum of the values the tasks returned
RECURSIVE SumResults(_)
SumResults(ts) == IF ts = <<>> THEN 0 ELSE ts[1].result + SumResults(Tail(ts))

\* a task returns
TaskReturn(i, handle, value) ==
  tasks' = [tasks EXCEPT ![i] = [pc |-> "done", confirm_button |-> handle, result |-> value]]

\* await page.wait_for_selector('div[data-testid="primaryColumn"]', timeout=10000)
UndoWait ==
  /\ u_pc = "wait"
  /\ u_pc' = "scan"
  /\ UNCHANGED <<u_page, undo_buttons, tasks, total_undo_count>>
  /\ UNCHANGED undoFrame

\* the wait raises: the except branch of the function
UndoWaitRaises ==
  /\ u_pc = "wait"
  /\ u_pc' = "error"
  /\ UNCHANGED <<u_page, undo_buttons, tasks, total_undo_count>>
  /\ UNCHANGED undoFrame

\* a turn of the loop: the page content is saved, the undo buttons are queried; with
\* no button the loop ends, otherwise one task is made for each button
UndoScan ==
  /\ u_pc = "scan"
  /\ undo_buttons' = InDocumentOrder(u_page.reposted)
  /\ IF undo_buttons' = <<>>
     THEN /\ u_pc' = "finished"
          /\ UNCHANGED tasks
     ELSE /\ u_pc' = "gather"
          /\ tasks' = [i \in DOMAIN undo_buttons' |->
                         [pc |-> "click", confirm_button |-> 0, result |-> 0]]
  /\ UNCHANGED <<u_page, total_undo_count>>
  /\ UNCHANGED undoFrame

\* page.content, the write of the debug file or the query raises
UndoScanRaises ==
  /\ u_pc = "scan"
  /\ u_pc' = "error"
  /\ UNCHANGED <<u_page, undo_buttons, tasks, total_undo_count>>
  /\ UNCHANGED undoFrame

\* click_undo_button: await button.click().  The click may raise, and it raises
\* every time for a button that cannot be clicked: the except branch returns 0;
\* otherwise the menu of the button's post is open when the task goes to sleep
TaskClick(i) ==
  /\ u_pc = "gather"
  /\ i \in DOMAIN tasks
  /\ tasks[i].pc = "click"
  /\ \E raises \in BOOLEAN :
       IF raises \/ undo_buttons[i] \in u_page.stuck
       THEN /\ TaskReturn(i, 0, 0)
            /\ UNCHANGED u_page
       ELSE /\ tasks' = [tasks EXCEPT ![i].pc = "query"]
            /\ u_page' = [u_page EXCEPT !.menu = undo_buttons[i]]
  /\ UNCHANGED <<u_pc, undo_buttons, total_undo_count>>
  /\ UNCHANGED undoFrame

\* click_undo_button: confirm_button = await page.query_selector(...), a query of
\* the whole page.  With no confirmation in the page the task returns 0; when the
\* query raises the except branch returns 0, and a menu that is open stays open
TaskQuery(i) ==
  /\ u_pc = "gather"
  /\ i \in DOMAIN tasks
  /\ tasks[i].pc = "query"
  /\ \E raises \in BOOLEAN :
       IF raises \/ u_page.menu = 0
       THEN TaskReturn(i, 0, 0)
       ELSE tasks' = [tasks EXCEPT ![i].pc = "confirm", ![i].confirm_button = u_page.menu]
  /\ UNCHANGED <<u_pc, u_page, undo_buttons, total_undo_count>>
  /\ UNCHANGED undoFrame

\* click_undo_button: await confirm_button.click().  The click undoes the repost of
\* the menu's post and closes the menu, and the task goes to sleep.  The click may
\* raise, and it raises on an element that is no longer in the page: the except
\* branch returns 0, the post stays reposted and a menu that is open stays open
TaskConfirm(i) ==
  /\ u_pc = "gather"
  /\ i \in DOMAIN tasks
  /\ tasks[i].pc = "confirm"
  /\ \E raises \in BOOLEAN :
       IF raises \/ u_page.menu # tasks[i].confirm_button
       THEN /\ TaskReturn(i, tasks[i].confirm_button, 0)
            /\ UNCHANGED u_page
       ELSE /\ tasks' = [tasks EXCEPT ![i].pc = "confirmed"]
            /\ u_page' = [u_page EXCEPT !.reposted = @ \ {tasks[i].confirm_button},
                                        !.menu = 0]
  /\ UNCHANGED <<u_pc, undo_buttons, total_undo_count>>
  /\ UNCHANGED undoFrame

\* click_undo_button: the sleep after the confirming click is over, return 1
TaskConfirmed(i) ==
  /\ u_pc = "gather"
  /\ i \in DOMAIN tasks
  /\ tasks[i].pc = "confirmed"
  /\ TaskReturn(i, tasks[i].confirm_button, 1)
  /\ UNCHANGED <<u_pc, u_page, undo_buttons, total_undo_count>>
  /\ UNCHANGED undoFrame

\* a step of the task of the button at an index
TaskStep(i) == TaskClick(i) \/ TaskQuery(i) \/ TaskConfirm(i) \/ TaskConfirmed(i)

\* results = await asyncio.gather(*tasks); total_undo_count += sum(valid_results)
UndoGathered ==
  /\ u_pc = "gather"
  /\ \A i \in DOMAIN tasks : tasks[i].pc = "done"
  /\ total_undo_count' = total_undo_count + SumResults(tasks)
  /\ tasks' = <<>>
  /\ u_pc' = "scroll"
  /\ UNCHANGED <<u_page, undo_buttons>>
  /\ UNCHANGED undoFrame

\* await page.evaluate("window.scrollBy(0, window.innerHeight)"), the sleep, and
\* the next turn of the loop
UndoScroll ==
  /\ u_pc = "scroll"
  /\ u_pc' = "scan"
  /\ UNCHANGED <<u_page, undo_buttons, tasks, total_undo_count>>
  /\ UNCHANGED undoFrame

\* page.evaluate raises
UndoScrollRaises ==
  /\ u_pc = "scroll"
  /\ u_pc' = "error"
  /\ UNCHANGED <<u_page, undo_buttons, tasks, total_undo_count>>
  /\ UNCHANGED undoFrame

\* the steps of the function itself that do not raise
UndoMain == UndoWait \/ UndoScan \/ UndoGathered \/ UndoScroll

UndoNext ==
  \/ UndoWait
  \/ UndoWaitRaises
  \/ UndoScan
  \/ UndoScanRaises
  \/ \E i \in UPosts : TaskClick(i)
  \/ \E i \in UPosts : TaskQuery(i)
  \/ \E i \in UPosts : TaskConfirm(i)
  \/ \E i \in UPosts : TaskConfirmed(i)
  \/ UndoGathered
  \/ UndoScroll
  \/ UndoScrollRaises

(***************************************************************************)
(* SpecUndo: one call of undo_retweets on a profile page of up to          *)
(* UndoPosts reposted posts, some of which have a button that cannot be    *)
(* clicked.  SpecUndoFair adds the scheduling of the event loop: the       *)
(* function and every task take their next step; no call is bound to       *)
(* succeed or to raise.                                                    *)
(***************************************************************************)
UndoInit ==
  /\ u_pc = "wait"
  /\ \E shown \in SUBSET UPosts : \E broken \in SUBSET shown :
       u_page = [reposted |-> shown, stuck |-> broken, menu |-> 0]
  /\ undo_buttons = <<>>
  /\ tasks = <<>>
  /\ total_undo_count = 0
  /\ DedupIdle
  /\ SiteIdle
  /\ ScrollIdle
  /\ PostsIdle
  /\ ExecIdle
  /\ OrchIdle
  /\ StartIdle

SpecUndo == UndoInit /\ [][UndoNext]_vars

SpecUndoFair ==
  /\ UndoInit
  /\ [][UndoNext]_vars
  /\ WF_vars(UndoMain)
  /\ \A i \in UPosts : WF_vars(TaskStep(i))

(***************************************************************************)
(* Properties of undo_retweets                                             *)
(***************************************************************************)
\* the task at an index has called the click of a confirmation
ClickedConfirm(i) == tasks[i].pc \in {"confirmed", "done"} /\ tasks[i].confirm_button # 0

\* the tasks that sleep after their confirming click: each is about to return 1
Confirmed == {i \in DOMAIN tasks : tasks[i].pc = "confirmed"}

\* the count of the function with the values of the round in progress, returned
\* or about to be returned
Counted == total_undo_count + SumResults(tasks) + Cardinality(Confirmed)

\* C31: the tasks of a round are independent: no two of them call the click of the
\* same confirmation, a task that returns 1 has confirmed the undo of its own
\* button, and the count goes up exactly when a repost is undone, so that
\* total_undo_count is the number of posts undone.
C31_TasksIndependent ==
  /\ [](\A i, j \in DOMAIN tasks :
          (i # j /\ ClickedConfirm(i) /\ ClickedConfirm(j)) =>
            tasks[i].confirm_button # tasks[j].confirm_button)
  /\ [](\A i \in DOMAIN tasks :
          tasks[i].result = 1 => tasks[i].confirm_button = undo_buttons[i])
  /\ [][Counted' + Cardinality(u_page.reposted') = Counted + Cardinality(u_page.reposted)]_vars

\* C37: a call of undo_retweets ends, also when the click on a button fails or no
\* confirmation is found for it.
C37_UndoTerminates == <>UndoEnded

====
